---------------------------- MODULE Spec2Model ----------------------------
(***************************************************************************)
(* Elementor -> React Bricks converter: the markup parser, the schema      *)
(* mapper, the style/unit mapper, the code generator and the presentation  *)
(* shell that drives them.                                                 *)
(*                                                                         *)
(* Representation.                                                         *)
(*  - A JavaScript string is a sequence of one-character strings, so that  *)
(*    includes/startsWith/replace/split/match are computed, not assumed.   *)
(*    <<"a", "b", "c">> is the character sequence of the literal "abc".             *)
(*  - A JavaScript number is an integer count of thousandths (Scale), or   *)
(*    NaN.  Products that leave the thousandths grid (x 1.333) are carried *)
(*    in millionths.                                                       *)
(*  - A JavaScript value of varying type (a settings value, a prop value)  *)
(*    is a tagged record: Undef, Null, Str(s), Num(n), Bool(b), Obj(f),    *)
(*    Arr(items).                                                          *)
(*  - An object with insertion-ordered keys (props, settings, styles) is a *)
(*    sequence of [k, v] entries.                                          *)
(*  - Generated source text is a sequence of fragments: a template literal *)
(*    of the generator is one fragment, interpolated data is spliced in    *)
(*    character by character.                                              *)
(***************************************************************************)
EXTENDS Integers, Sequences, FiniteSets, TLC

VARIABLES
  url,              \* shell: the text of the URL input
  loading,          \* shell: a fetch is in flight
  error,            \* shell: the error message shown, or Null
  parsedData,       \* shell: the parsed page, or Null
  generatedCode,    \* shell: the generated source text, <<>> when none
  selectedElement,  \* shell: the id of the element code was generated for, or Null
  activeTab,        \* shell: "elements" or "code"
  toast,            \* shell: the last notification raised, or Null
  clipboard,        \* shell: what copyCode last wrote to the clipboard
  inflight,         \* shell: the number of parse promises not yet settled
  arg,              \* function harness: the input under test
  res,              \* function harness: the outputs computed so far
  pc                \* function harness: position

shellVars == <<url, loading, error, parsedData, generatedCode, selectedElement,
               activeTab, toast, clipboard, inflight>>
harnessVars == <<arg, res, pc>>
vars == <<url, loading, error, parsedData, generatedCode, selectedElement,
          activeTab, toast, clipboard, inflight, arg, res, pc>>

-----------------------------------------------------------------------------
(* Strings *)

Lower == <<"a","b","c","d","e","f","g","h","i","j","k","l","m",
           "n","o","p","q","r","s","t","u","v","w","x","y","z">>
Upper == <<"A","B","C","D","E","F","G","H","I","J","K","L","M",
           "N","O","P","Q","R","S","T","U","V","W","X","Y","Z">>
Digits == <<"0","1","2","3","4","5","6","7","8","9">>

Range(s) == { s[i] : i \in DOMAIN s }

IsDigit(ch) == ch \in Range(Digits)
IsSpace(ch) == ch \in {" ", "\t", "\n", "\r"}

\* 1-based position of the character ch in s, 0 when it is not there
PosIn(s, ch) ==
  IF \E i \in DOMAIN s : s[i] = ch THEN CHOOSE i \in DOMAIN s : s[i] = ch ELSE 0

DigitVal(ch) == PosIn(Digits, ch) - 1

toUpperCase(ch) ==
  LET At(i) == IF i = 0 THEN ch ELSE Upper[i]
  IN At(PosIn(Lower, ch))

toLowerCase(ch) ==
  LET At(i) == IF i = 0 THEN ch ELSE Lower[i]
  IN At(PosIn(Upper, ch))

MapChars(s, F(_)) == [i \in 1..Len(s) |-> F(s[i])]

\* s.slice(i - 1): the suffix of s from 1-based position i
From(s, i) == IF i > Len(s) THEN <<>> ELSE SubSeq(s, IF i < 1 THEN 1 ELSE i, Len(s))

StartsWithAt(s, p, i) ==
  /\ i >= 1
  /\ i + Len(p) - 1 <= Len(s)
  /\ SubSeq(s, i, i + Len(p) - 1) = p

startsWith(s, p) == StartsWithAt(s, p, 1)

Min(S) == CHOOSE x \in S : \A y \in S : x <= y

\* the least member of a set of positions, 0 when the set is empty
FirstOf(S) == IF S = {} THEN 0 ELSE CHOOSE x \in S : \A y \in S : x <= y

\* 1-based position of the first occurrence of p in s at or after from, 0 when none
IndexFrom(s, p, from) ==
  FirstOf({ i \in from..(Len(s) - Len(p) + 1) : StartsWithAt(s, p, i) })

IndexOf(s, p) == IndexFrom(s, p, 1)

includes(s, p) == IndexOf(s, p) # 0

\* s.replace(p, r) with a string pattern: the first occurrence only
replace(s, p, r) ==
  LET At(i) == IF i = 0 THEN s ELSE SubSeq(s, 1, i - 1) \o r \o From(s, i + Len(p))
  IN At(IndexOf(s, p))

RECURSIVE TrimStart(_)
TrimStart(s) == IF s # <<>> /\ IsSpace(Head(s)) THEN TrimStart(Tail(s)) ELSE s

RECURSIVE TrimEnd(_)
TrimEnd(s) ==
  IF s # <<>> /\ IsSpace(s[Len(s)]) THEN TrimEnd(SubSeq(s, 1, Len(s) - 1)) ELSE s

trim(s) == TrimEnd(TrimStart(s))

\* s.split(sep) with a one-character separator: ''.split('-') is ['']
RECURSIVE split(_, _)
split(s, sep) ==
  LET At(i) == IF i = 0 THEN <<s>>
               ELSE <<SubSeq(s, 1, i - 1)>> \o split(From(s, i + 1), sep)
  IN At(IndexOf(s, <<sep>>))

RECURSIVE join(_, _)
join(parts, sep) ==
  IF parts = <<>> THEN <<>>
  ELSE IF Len(parts) = 1 THEN parts[1]
  ELSE parts[1] \o sep \o join(Tail(parts), sep)

\* the longest prefix of s whose characters all satisfy a test
TakeWhile(s, T(_)) ==
  LET Before(i) == IF i = 0 THEN s ELSE SubSeq(s, 1, i - 1)
  IN Before(FirstOf({ i \in 1..Len(s) : ~T(s[i]) }))

\* decimal digits of a natural number
RECURSIVE NatToStr(_)
NatToStr(n) == IF n < 10 THEN <<Digits[n + 1]>> ELSE NatToStr(n \div 10) \o <<Digits[(n % 10) + 1]>>

\* value of a digit string
RECURSIVE StrToNat(_)
StrToNat(s) ==
  IF s = <<>> THEN 0 ELSE StrToNat(SubSeq(s, 1, Len(s) - 1)) * 10 + DigitVal(s[Len(s)])

-----------------------------------------------------------------------------
(* Patterns: the regular expressions of the source are sequences of steps, *)
(* each a literal or a greedy run of a character class; none of them needs *)
(* backtracking, because every run is followed by a character outside its  *)
(* class.                                                                  *)

Lit(chars) == [lit |-> chars, class |-> {}, min |-> 0]
Run(class, min) == [lit |-> <<>>, class |-> class, min |-> min]

DigitClass == {"0", "1", "2", "3", "4", "5", "6", "7", "8", "9"}
SpaceClass == {" ", "\t", "\n", "\r"}

\* the position after the run of class characters that starts at i
RECURSIVE RunEnd(_, _, _)
RunEnd(s, i, class) ==
  IF i <= Len(s) /\ s[i] \in class THEN RunEnd(s, i + 1, class) ELSE i

\* the position after one step matched at i, 0 when it does not match there
StepEnd(s, i, step) ==
  LET Enough(e) == IF e - i >= step.min THEN e ELSE 0
  IN IF step.class = {}
       THEN IF StartsWithAt(s, step.lit, i) THEN i + Len(step.lit) ELSE 0
     ELSE Enough(RunEnd(s, i, step.class))

\* the positions after each step of a pattern matched at i; the list ends
\* with 0 at the step that does not match
RECURSIVE MatchSteps(_, _, _)
MatchSteps(s, i, steps) ==
  LET Then(e) == IF e = 0 THEN <<0>> ELSE <<e>> \o MatchSteps(s, e, Tail(steps))
  IN IF steps = <<>> THEN <<>> ELSE Then(StepEnd(s, i, Head(steps)))

Matched(ends) == ends # <<>> /\ ends[Len(ends)] # 0

\* the text between the end of step k - 1 and the end of step k
Group(s, ends, k) == SubSeq(s, ends[k - 1], ends[k] - 1)

-----------------------------------------------------------------------------
(* Numbers: thousandths, or NaN *)

Scale == 10 * 10 * 10

NaN == [nan |-> TRUE, v |-> 0]
Number(n) == [nan |-> FALSE, v |-> n]

\* parseFloat(s): leading white space, a sign, digits, a fraction; NaN when no
\* digit is read.  Exponents are not read; the fraction keeps three digits.
parseFloat(str) ==
  LET Value(neg, ip, fp) ==
        IF ip = <<>> /\ fp = <<>> THEN NaN
        ELSE Number((IF neg THEN -1 ELSE 1)
                    * (StrToNat(ip) * Scale
                       + StrToNat(SubSeq(fp \o <<"0", "0", "0">>, 1, 3))))
      Fraction(r1) ==
        IF r1 # <<>> /\ Head(r1) = "." THEN TakeWhile(Tail(r1), IsDigit) ELSE <<>>
      AfterInt(neg, s1, ip) == Value(neg, ip, Fraction(From(s1, Len(ip) + 1)))
      AfterSign(neg, s1) == AfterInt(neg, s1, TakeWhile(s1, IsDigit))
      AfterSpace(s0) ==
        AfterSign(s0 # <<>> /\ Head(s0) = "-",
                  IF s0 # <<>> /\ Head(s0) \in {"-", "+"} THEN Tail(s0) ELSE s0)
  IN AfterSpace(TrimStart(str))

HexDigits == <<"0","1","2","3","4","5","6","7","8","9","a","b","c","d","e","f">>
HexVal(ch) == PosIn(HexDigits, toLowerCase(ch)) - 1
IsHexDigit(ch) == HexVal(ch) >= 0

RECURSIVE HexToNat(_)
HexToNat(s) ==
  IF s = <<>> THEN 0 ELSE HexToNat(SubSeq(s, 1, Len(s) - 1)) * 16 + HexVal(s[Len(s)])

\* parseInt(s, 16): the leading hex digits, NaN when there is none (whole units)
parseInt16(str) ==
  LET Value(ds) == IF ds = <<>> THEN NaN ELSE Number(HexToNat(ds))
  IN Value(TakeWhile(str, IsHexDigit))

\* parseInt(s): the leading decimal digits after an optional sign (whole units)
parseInt(str) ==
  LET Value(neg, ds) ==
        IF ds = <<>> THEN NaN ELSE Number((IF neg THEN -1 ELSE 1) * StrToNat(ds))
      AfterSpace(s0) ==
        Value(s0 # <<>> /\ Head(s0) = "-",
              TakeWhile(IF s0 # <<>> /\ Head(s0) \in {"-", "+"} THEN Tail(s0) ELSE s0,
                        IsDigit))
  IN AfterSpace(TrimStart(str))

\* comparisons with NaN are false
Gt(x, n) == ~x.nan /\ x.v > n
Lt(x, n) == ~x.nan /\ x.v < n

\* ('0' + n.toString(16)).slice(-2)
Hex2(n) == <<HexDigits[((n \div 16) % 16) + 1], HexDigits[(n % 16) + 1]>>

\* s.trim().split(/\s+/)
RECURSIVE SplitWs(_)
SplitWs(s) ==
  LET Word(e) == IF e > Len(s) THEN <<s>>
                 ELSE <<SubSeq(s, 1, e - 1)>> \o SplitWs(TrimStart(From(s, e)))
  IN Word(FirstOf({ i \in 1..Len(s) : IsSpace(s[i]) } \cup {Len(s) + 1}))

\* size.replace(/[\d.-]/g, '')
UnitOf(size) == SelectSeq(size, LAMBDA ch : ~(IsDigit(ch) \/ ch \in {".", "-"}))

-----------------------------------------------------------------------------
(* tailwindMapper.ts: the style/unit mapper *)

TailwindColor(color, className) == [color |-> color, className |-> className]

Gray500 == TailwindColor(<<"g", "r", "a", "y", "-", "5", "0", "0">>, <<"b", "g", "-", "g", "r", "a", "y", "-", "5", "0", "0">>)

\* the channels of a hex colour: r, g, b stay 0 unless the length is 4 or 7
HexChannels(hex) ==
  IF Len(hex) = 4
    THEN [r |-> parseInt16(<<hex[2], hex[2]>>),
          g |-> parseInt16(<<hex[3], hex[3]>>),
          b |-> parseInt16(<<hex[4], hex[4]>>)]
  ELSE IF Len(hex) = 7
    THEN [r |-> parseInt16(SubSeq(hex, 2, 3)),
          g |-> parseInt16(SubSeq(hex, 4, 5)),
          b |-> parseInt16(SubSeq(hex, 6, 7))]
  ELSE [r |-> Number(0), g |-> Number(0), b |-> Number(0)]

mapHexColor(hex) ==
  LET Nearest(r, g, b) ==
        IF Gt(r, 200) /\ Gt(g, 200) /\ Gt(b, 200)
          THEN TailwindColor(<<"g", "r", "a", "y", "-", "1", "0", "0">>, <<"b", "g", "-", "g", "r", "a", "y", "-", "1", "0", "0">>)
        ELSE IF Lt(r, 50) /\ Lt(g, 50) /\ Lt(b, 50)
          THEN TailwindColor(<<"g", "r", "a", "y", "-", "9", "0", "0">>, <<"b", "g", "-", "g", "r", "a", "y", "-", "9", "0", "0">>)
        ELSE IF Gt(r, 200) /\ Lt(g, 100) /\ Lt(b, 100)
          THEN TailwindColor(<<"r", "e", "d", "-", "5", "0", "0">>, <<"b", "g", "-", "r", "e", "d", "-", "5", "0", "0">>)
        ELSE IF Lt(r, 100) /\ Gt(g, 150) /\ Lt(b, 100)
          THEN TailwindColor(<<"g", "r", "e", "e", "n", "-", "5", "0", "0">>, <<"b", "g", "-", "g", "r", "e", "e", "n", "-", "5", "0", "0">>)
        ELSE IF Lt(r, 100) /\ Lt(g, 100) /\ Gt(b, 200)
          THEN TailwindColor(<<"b", "l", "u", "e", "-", "5", "0", "0">>, <<"b", "g", "-", "b", "l", "u", "e", "-", "5", "0", "0">>)
        ELSE IF Gt(r, 200) /\ Gt(g, 150) /\ Lt(b, 100)
          THEN TailwindColor(<<"y", "e", "l", "l", "o", "w", "-", "5", "0", "0">>, <<"b", "g", "-", "y", "e", "l", "l", "o", "w", "-", "5", "0", "0">>)
        ELSE IF Gt(r, 150) /\ Lt(g, 100) /\ Gt(b, 150)
          THEN TailwindColor(<<"p", "u", "r", "p", "l", "e", "-", "5", "0", "0">>, <<"b", "g", "-", "p", "u", "r", "p", "l", "e", "-", "5", "0", "0">>)
        ELSE Gray500
      Of(c) == Nearest(c.r, c.g, c.b)
  IN Of(HexChannels(hex))

\* /rgba?\((\d+),\s*(\d+),\s*(\d+)(?:,\s*([\d.]+))?\)/ as steps, with or
\* without the optional a and the optional alpha group
RgbPattern(a, alpha) ==
  <<Lit(IF a THEN <<"r", "g", "b", "a", "(">> ELSE <<"r", "g", "b", "(">>),
    Run(DigitClass, 1), Lit(<<",">>), Run(SpaceClass, 0),
    Run(DigitClass, 1), Lit(<<",">>), Run(SpaceClass, 0),
    Run(DigitClass, 1)>>
  \o (IF alpha THEN <<Lit(<<",">>), Run(SpaceClass, 0), Run(DigitClass \cup {"."}, 1)>>
      ELSE <<>>)
  \o <<Lit(<<")">>)>>

\* the pattern tried at position i: [ok, r, g, b, a] with a = <<>> when the
\* alpha group did not take part
RgbMatchAt(s, i) ==
  LET Ends(alt) == MatchSteps(s, i, RgbPattern(alt[1], alt[2]))
      Groups(ends, alpha) ==
        [ok |-> TRUE, r |-> Group(s, ends, 2), g |-> Group(s, ends, 5),
         b |-> Group(s, ends, 8),
         a |-> IF alpha THEN Group(s, ends, 11) ELSE <<>>]
      Taken(alt) == Groups(Ends(alt), alt[2])
      Of(alts) == IF alts = {} THEN [ok |-> FALSE]
                  ELSE Taken(CHOOSE alt \in alts : TRUE)
  IN Of({ alt \in BOOLEAN \X BOOLEAN : Matched(Ends(alt)) })

mapRgbColor(rgb) ==
  LET Of(match) ==
        IF Lt(IF match.a # <<>> THEN parseFloat(match.a) ELSE Number(Scale),
              Scale \div 2)
          THEN TailwindColor(<<"t", "r", "a", "n", "s", "p", "a", "r", "e", "n", "t">>, <<"b", "g", "-", "t", "r", "a", "n", "s", "p", "a", "r", "e", "n", "t">>)
        ELSE mapHexColor(<<"#">> \o Hex2(StrToNat(match.r))
                         \o Hex2(StrToNat(match.g)) \o Hex2(StrToNat(match.b)))
      At(i) == IF i = 0 THEN Gray500 ELSE Of(RgbMatchAt(rgb, i))
  IN At(FirstOf({ i \in 1..Len(rgb) : RgbMatchAt(rgb, i).ok }))

mapNamedColor(color) ==
  LET Named(name) ==
        IF name = <<"w", "h", "i", "t", "e">> THEN TailwindColor(<<"w", "h", "i", "t", "e">>, <<"b", "g", "-", "w", "h", "i", "t", "e">>)
        ELSE IF name = <<"b", "l", "a", "c", "k">> THEN TailwindColor(<<"b", "l", "a", "c", "k">>, <<"b", "g", "-", "b", "l", "a", "c", "k">>)
        ELSE IF name = <<"r", "e", "d">> THEN TailwindColor(<<"r", "e", "d", "-", "5", "0", "0">>, <<"b", "g", "-", "r", "e", "d", "-", "5", "0", "0">>)
        ELSE IF name = <<"g", "r", "e", "e", "n">> THEN TailwindColor(<<"g", "r", "e", "e", "n", "-", "5", "0", "0">>, <<"b", "g", "-", "g", "r", "e", "e", "n", "-", "5", "0", "0">>)
        ELSE IF name = <<"b", "l", "u", "e">> THEN TailwindColor(<<"b", "l", "u", "e", "-", "5", "0", "0">>, <<"b", "g", "-", "b", "l", "u", "e", "-", "5", "0", "0">>)
        ELSE IF name = <<"y", "e", "l", "l", "o", "w">> THEN TailwindColor(<<"y", "e", "l", "l", "o", "w", "-", "5", "0", "0">>, <<"b", "g", "-", "y", "e", "l", "l", "o", "w", "-", "5", "0", "0">>)
        ELSE IF name = <<"p", "u", "r", "p", "l", "e">> THEN TailwindColor(<<"p", "u", "r", "p", "l", "e", "-", "5", "0", "0">>, <<"b", "g", "-", "p", "u", "r", "p", "l", "e", "-", "5", "0", "0">>)
        ELSE IF name = <<"p", "i", "n", "k">> THEN TailwindColor(<<"p", "i", "n", "k", "-", "5", "0", "0">>, <<"b", "g", "-", "p", "i", "n", "k", "-", "5", "0", "0">>)
        ELSE IF name = <<"g", "r", "a", "y">> THEN Gray500
        ELSE IF name = <<"g", "r", "e", "y">> THEN Gray500
        ELSE Gray500
  IN Named(MapChars(color, toLowerCase))

mapColor(color) ==
  IF color = <<"t", "r", "a", "n", "s", "p", "a", "r", "e", "n", "t">> \/ color = <<"n", "o", "n", "e">>
    THEN TailwindColor(<<"t", "r", "a", "n", "s", "p", "a", "r", "e", "n", "t">>, <<"b", "g", "-", "t", "r", "a", "n", "s", "p", "a", "r", "e", "n", "t">>)
  ELSE IF startsWith(color, <<"#">>) THEN mapHexColor(color)
  ELSE IF startsWith(color, <<"r", "g", "b">>) THEN mapRgbColor(color)
  ELSE mapNamedColor(color)

\* className.replace(/^(bg|text)-/, 'bg-')
mapBackgroundColor(color) ==
  LET Class(cn) ==
        IF startsWith(cn, <<"b", "g", "-">>) THEN <<"b", "g", "-">> \o From(cn, 4)
        ELSE IF startsWith(cn, <<"t", "e", "x", "t", "-">>) THEN <<"b", "g", "-">> \o From(cn, 6)
        ELSE cn
      Of(mapped) == [mapped EXCEPT !.className = Class(mapped.className)]
  IN Of(mapColor(color))

ButtonColor(value, label) == [value |-> value, label |-> label]

mapButtonColor(color) ==
  LET Of(colorName) ==
        IF includes(colorName, <<"p", "i", "n", "k">>) \/ includes(colorName, <<"f", "u", "c", "h", "s", "i", "a">>)
           \/ includes(colorName, <<"r", "o", "s", "e">>)
          THEN ButtonColor(<<"p", "i", "n", "k">>, <<"P", "i", "n", "k">>)
        ELSE IF includes(colorName, <<"p", "u", "r", "p", "l", "e">>) \/ includes(colorName, <<"v", "i", "o", "l", "e", "t">>)
          THEN ButtonColor(<<"p", "u", "r", "p", "l", "e">>, <<"P", "u", "r", "p", "l", "e">>)
        ELSE IF includes(colorName, <<"b", "l", "u", "e">>) \/ includes(colorName, <<"s", "k", "y">>)
           \/ includes(colorName, <<"c", "y", "a", "n">>)
          THEN ButtonColor(<<"b", "l", "u", "e">>, <<"B", "l", "u", "e">>)
        ELSE IF includes(colorName, <<"g", "r", "e", "e", "n">>) \/ includes(colorName, <<"e", "m", "e", "r", "a", "l", "d">>)
           \/ includes(colorName, <<"t", "e", "a", "l">>)
          THEN ButtonColor(<<"g", "r", "e", "e", "n">>, <<"G", "r", "e", "e", "n">>)
        ELSE IF includes(colorName, <<"y", "e", "l", "l", "o", "w">>) \/ includes(colorName, <<"a", "m", "b", "e", "r">>)
          THEN ButtonColor(<<"y", "e", "l", "l", "o", "w">>, <<"Y", "e", "l", "l", "o", "w">>)
        ELSE IF includes(colorName, <<"r", "e", "d">>) THEN ButtonColor(<<"r", "e", "d">>, <<"R", "e", "d">>)
        ELSE ButtonColor(<<"g", "r", "a", "y">>, <<"G", "r", "a", "y">>)
  IN Of(mapColor(color).color)

\* pixels <= n, with pixels in thousandths
LePx(x, n) == ~x.nan /\ x.v <= n * Scale

convertSizeToTailwind(size) ==
  LET Step(unit, pixels) ==
        IF unit = <<"%">> THEN <<"n", "o", "r", "m", "a", "l">>
        ELSE IF ~pixels.nan /\ pixels.v = 0 THEN <<"n", "o", "n", "e">>
        ELSE IF LePx(pixels, 1) THEN <<"p", "x">>
        ELSE IF LePx(pixels, 2) THEN <<"0", ".", "5">>
        ELSE IF LePx(pixels, 4) THEN <<"1">>
        ELSE IF LePx(pixels, 6) THEN <<"1", ".", "5">>
        ELSE IF LePx(pixels, 8) THEN <<"2">>
        ELSE IF LePx(pixels, 12) THEN <<"3">>
        ELSE IF LePx(pixels, 16) THEN <<"4">>
        ELSE IF LePx(pixels, 20) THEN <<"5">>
        ELSE IF LePx(pixels, 24) THEN <<"6">>
        ELSE IF LePx(pixels, 32) THEN <<"8">>
        ELSE IF LePx(pixels, 40) THEN <<"1", "0">>
        ELSE IF LePx(pixels, 48) THEN <<"1", "2">>
        ELSE IF LePx(pixels, 64) THEN <<"1", "6">>
        ELSE IF LePx(pixels, 80) THEN <<"2", "0">>
        ELSE IF LePx(pixels, 96) THEN <<"2", "4">>
        ELSE IF LePx(pixels, 128) THEN <<"3", "2">>
        ELSE IF LePx(pixels, 160) THEN <<"4", "0">>
        ELSE IF LePx(pixels, 192) THEN <<"4", "8">>
        ELSE <<"l", "a", "r", "g", "e">>
      Of(value, unit) ==
        Step(unit, IF unit = <<"e", "m">> \/ unit = <<"r", "e", "m">>
                     THEN [value EXCEPT !.v = @ * 16] ELSE value)
  IN Of(parseFloat(size), UnitOf(size))

mapPadding(padding) ==
  LET Of(parts) ==
        IF Len(parts) = 1 THEN convertSizeToTailwind(parts[1])
        ELSE IF Len(parts) = 2
          THEN convertSizeToTailwind(parts[1]) \o <<"-", "y", " ">>
               \o convertSizeToTailwind(parts[2]) \o <<"-", "x">>
        ELSE IF Len(parts) = 4
          THEN convertSizeToTailwind(parts[1]) \o <<"-", "t", " ">>
               \o convertSizeToTailwind(parts[3]) \o <<"-", "b">>
        ELSE <<"n", "o", "r", "m", "a", "l">>
  IN Of(SplitWs(trim(padding)))

mapSinglePadding(padding) == convertSizeToTailwind(padding)

\* this.mapPadding(margin).replace(/p/g, 'm')
mapMargin(margin) ==
  MapChars(mapPadding(margin), LAMBDA ch : IF ch = "p" THEN "m" ELSE ch)

\* sizeInPx < n: the comparison a strict threshold would make
LtFontPx(nan, micro, n) == ~nan /\ micro < n * Scale * Scale

\* sizeInPx <= n, with sizeInPx in millionths
LeFontPx(nan, micro, n) == ~nan /\ micro <= n * Scale * Scale

mapFontSize(fontSize) ==
  LET Step(nan, sizeInPx) ==
        IF LeFontPx(nan, sizeInPx, 12) THEN <<"x", "s">>
        ELSE IF LeFontPx(nan, sizeInPx, 14) THEN <<"s", "m">>
        ELSE IF LeFontPx(nan, sizeInPx, 16) THEN <<"b", "a", "s", "e">>
        ELSE IF LeFontPx(nan, sizeInPx, 18) THEN <<"l", "g">>
        ELSE IF LeFontPx(nan, sizeInPx, 20) THEN <<"x", "l">>
        ELSE IF LeFontPx(nan, sizeInPx, 24) THEN <<"2", "x", "l">>
        ELSE IF LeFontPx(nan, sizeInPx, 30) THEN <<"3", "x", "l">>
        ELSE IF LeFontPx(nan, sizeInPx, 36) THEN <<"4", "x", "l">>
        ELSE IF LeFontPx(nan, sizeInPx, 48) THEN <<"5", "x", "l">>
        ELSE <<"6", "x", "l">>
      Of(size, unit) ==
        Step(size.nan,
             IF unit = <<"e", "m">> \/ unit = <<"r", "e", "m">> THEN size.v * 16 * Scale
             ELSE IF unit = <<"p", "t">> THEN size.v * 1333
             ELSE size.v * Scale)
  IN Of(parseFloat(fontSize), UnitOf(fontSize))

-----------------------------------------------------------------------------
(* JavaScript values and insertion-ordered objects *)

Undef == [t |-> "undefined"]
Str(s) == [t |-> "string", v |-> s]
Num(n) == [t |-> "number", v |-> n]
Bool(b) == [t |-> "boolean", v |-> b]
Obj(entries) == [t |-> "object", v |-> entries]
Arr(items) == [t |-> "array", v |-> items]
Null == [t |-> "null"]

Truthy(x) ==
  CASE x.t = "undefined" -> FALSE
    [] x.t = "null" -> FALSE
    [] x.t = "string" -> x.v # <<>>
    [] x.t = "number" -> ~x.v.nan /\ x.v.v # 0
    [] x.t = "boolean" -> x.v
    [] OTHER -> TRUE

E(key, value) == [k |-> key, v |-> value]

Has(entries, key) == \E i \in DOMAIN entries : entries[i].k = key

\* obj[key]: undefined when the key is absent
Get(entries, key) ==
  IF Has(entries, key)
    THEN entries[CHOOSE i \in DOMAIN entries : entries[i].k = key].v
    ELSE Undef

\* obj[key] = value: an existing key keeps its place, a new key goes last
Set(entries, key, value) ==
  IF Has(entries, key)
    THEN [i \in DOMAIN entries |->
            IF entries[i].k = key THEN E(key, value) ELSE entries[i]]
    ELSE Append(entries, E(key, value))

Keys(entries) == [i \in DOMAIN entries |-> entries[i].k]

\* obj.a.b on a value that may be undefined or no object
GetIn(x, key) == IF x.t = "object" THEN Get(x.v, key) ELSE Undef

\* the string of a value used where a string is expected
StrOf(x) == IF x.t = "string" THEN x.v ELSE <<>>

\* sign? digits (. digits)? with at least one digit, and nothing else
IsNumeric(s) ==
  LET Whole(a, b, c) ==
        /\ a <= 2
        /\ c = Len(s) + 1
        /\ (b - a) + (IF c > b THEN c - b - 1 ELSE 0) >= 1
      AfterInt(a, b) ==
        Whole(a, b, IF b <= Len(s) /\ s[b] = "."
                      THEN RunEnd(s, b + 1, DigitClass) ELSE b)
      AfterSign(a) == AfterInt(a, RunEnd(s, a, DigitClass))
  IN AfterSign(RunEnd(s, 1, {"-", "+"}))

\* ToNumber(x), as a relational operator applies it to a non-number.  Hex
\* literals, exponents and Infinity are not read.
RECURSIVE ToNumber(_)
ToNumber(x) ==
  LET OfString(s) == IF s = <<>> THEN Number(0)
                     ELSE IF IsNumeric(s) THEN parseFloat(s) ELSE NaN
  IN CASE x.t = "number" -> x.v
       [] x.t = "boolean" -> Number(IF x.v THEN Scale ELSE 0)
       [] x.t = "string" -> OfString(trim(x.v))
       [] x.t = "null" -> Number(0)
       [] x.t = "array" -> IF x.v = <<>> THEN Number(0)
                           ELSE IF Len(x.v) = 1 /\ x.v[1].t \in {"number", "string"}
                             THEN ToNumber(x.v[1])
                           ELSE NaN
       [] OTHER -> NaN

ColorObj(c) == Obj(<<E(<<"c", "o", "l", "o", "r">>, Str(c.color)), E(<<"c", "l", "a", "s", "s", "N", "a", "m", "e">>, Str(c.className))>>)

-----------------------------------------------------------------------------
(* Pattern matches of the mapper and the generator.  A capture is returned *)
(* as a string; <<>> stands for "no match" as well as for an empty capture *)
(* where the code tests the capture for truthiness.                        *)

IsQuote(ch) == ch \in {"\"", "'"}

\* key followed by a quote, then (.*?) up to the next quote: /key["'](.*?)["']/
QuotedAfter(s, key, from) ==
  LET Capture(open, close) ==
        IF close = 0 THEN <<>> ELSE SubSeq(s, open + 1, close - 1)
      After(open) ==
        Capture(open, FirstOf({ i \in (open + 1)..Len(s) : IsQuote(s[i]) }))
      At(i) == IF i = 0 THEN <<>> ELSE After(i + Len(key))
  IN At(FirstOf({ i \in from..Len(s) :
                    /\ StartsWithAt(s, key, i)
                    /\ i + Len(key) <= Len(s)
                    /\ IsQuote(s[i + Len(key)]) }))

\* /<img.*?src=["'](.*?)["']/
ImgSrcMatch(s) ==
  LET At(i) == IF i = 0 THEN <<>> ELSE QuotedAfter(s, <<"s", "r", "c", "=">>, i + 4)
  IN At(IndexOf(s, <<"<", "i", "m", "g">>))

\* /href=["'](.*?)["']/
HrefMatch(s) == QuotedAfter(s, <<"h", "r", "e", "f", "=">>, 1)

\* />([^<]+)</
DirectTextMatch(s) ==
  LET NextLt(i) == FirstOf({ j \in (i + 1)..Len(s) : s[j] = "<" })
      At(i) == IF i = 0 THEN <<>> ELSE SubSeq(s, i + 1, NextLt(i) - 1)
  IN At(FirstOf({ i \in 1..Len(s) :
                    /\ s[i] = ">"
                    /\ i + 1 <= Len(s)
                    /\ s[i + 1] # "<"
                    /\ NextLt(i) # 0 }))

\* /url\(['"]?(.*?)['"]?\)/
CssUrlMatch(s) ==
  LET Capture(start, end) == IF end = 0 THEN <<>> ELSE SubSeq(s, start, end - 1)
      Inside(start) ==
        Capture(start,
                FirstOf({ q \in start..Len(s) :
                            \/ s[q] = ")"
                            \/ IsQuote(s[q]) /\ q + 1 <= Len(s) /\ s[q + 1] = ")" }))
      At(i) == IF i = 0 THEN <<>>
               ELSE Inside(IF i + 4 <= Len(s) /\ IsQuote(s[i + 4]) THEN i + 5 ELSE i + 4)
  IN At(IndexOf(s, <<"u", "r", "l", "(">>))

IsVideoIdChar(ch) == ~(ch \in {"\"", "&", "?", "/"} \/ IsSpace(ch))

\* /youtube.com\/embed\/([^"&?/\s]+)/ : the dot matches any character
YoutubeMatch(s) ==
  LET At(i) == IF i = 0 THEN <<>> ELSE TakeWhile(From(s, i + 18), IsVideoIdChar)
  IN At(FirstOf({ i \in 1..Len(s) :
                    /\ StartsWithAt(s, <<"y", "o", "u", "t", "u", "b", "e">>, i)
                    /\ i + 7 <= Len(s) /\ s[i + 7] # "\n"
                    /\ StartsWithAt(s, <<"c", "o", "m", "/", "e", "m", "b", "e", "d", "/">>, i + 8)
                    /\ i + 18 <= Len(s) /\ IsVideoIdChar(s[i + 18]) }))

\* /vimeo.com\/(?:video\/)?([0-9]+)/
VimeoMatch(s) ==
  LET Prefer(long, short) == IF long # <<>> THEN long ELSE short
      IdAt(i) ==
        Prefer(IF StartsWithAt(s, <<"v", "i", "d", "e", "o", "/">>, i + 10)
                 THEN TakeWhile(From(s, i + 16), IsDigit) ELSE <<>>,
               TakeWhile(From(s, i + 10), IsDigit))
      At(i) == IF i = 0 THEN <<>> ELSE IdAt(i)
  IN At(FirstOf({ i \in 1..Len(s) :
                    /\ StartsWithAt(s, <<"v", "i", "m", "e", "o">>, i)
                    /\ i + 5 <= Len(s) /\ s[i + 5] # "\n"
                    /\ StartsWithAt(s, <<"c", "o", "m", "/">>, i + 6)
                    /\ IdAt(i) # <<>> }))

\* /src=["'](.*?\.(?:mp4|webm|ogg))["']/
VideoUrlMatch(s) ==
  LET EndsExt(i, j) ==
        \E ext \in {<<".", "m", "p", "4">>, <<".", "w", "e", "b", "m">>, <<".", "o", "g", "g">>} :
           /\ j - Len(ext) + 1 >= i + 5
           /\ StartsWithAt(s, ext, j - Len(ext) + 1)
      End(i) == FirstOf({ j \in (i + 5)..(Len(s) - 1) :
                            /\ EndsExt(i, j)
                            /\ IsQuote(s[j + 1])
                            /\ \A k \in (i + 5)..j : s[k] # "\n" })
      At(i) == IF i = 0 THEN <<>> ELSE SubSeq(s, i + 5, End(i))
  IN At(FirstOf({ i \in 1..Len(s) :
                    /\ StartsWithAt(s, <<"s", "r", "c", "=">>, i)
                    /\ i + 4 <= Len(s) /\ IsQuote(s[i + 4])
                    /\ End(i) # 0 }))

\* end of a match of /\sclass="[^"]*elementor[^"]*"/ at i, 0 when none
ClassAttrEnd(s, i) ==
  LET Closed(close) ==
        IF close # 0 /\ includes(SubSeq(s, i + 8, close - 1), <<"e", "l", "e", "m", "e", "n", "t", "o", "r">>)
          THEN close ELSE 0
  IN IF i <= Len(s) /\ IsSpace(s[i]) /\ StartsWithAt(s, <<"c", "l", "a", "s", "s", "=", "\"">>, i + 1)
       THEN Closed(FirstOf({ j \in (i + 8)..Len(s) : s[j] = "\"" }))
       ELSE 0

\* end of a match of /\sdata-elementor[^=]*="[^"]*"/ at i, 0 when none
DataAttrEnd(s, i) ==
  LET Closed(eq) ==
        IF eq # 0 /\ StartsWithAt(s, <<"\"">>, eq + 1)
          THEN FirstOf({ j \in (eq + 2)..Len(s) : s[j] = "\"" }) ELSE 0
  IN IF i <= Len(s) /\ IsSpace(s[i]) /\ StartsWithAt(s, <<"d", "a", "t", "a", "-", "e", "l", "e", "m", "e", "n", "t", "o", "r">>, i + 1)
       THEN Closed(FirstOf({ j \in (i + 15)..Len(s) : s[j] = "=" }))
       ELSE 0

RECURSIVE StripClassAttrs(_)
StripClassAttrs(s) ==
  LET Cut(i) == IF i = 0 THEN s
                ELSE SubSeq(s, 1, i - 1)
                     \o StripClassAttrs(From(s, ClassAttrEnd(s, i) + 1))
  IN Cut(FirstOf({ i \in 1..Len(s) : ClassAttrEnd(s, i) # 0 }))

RECURSIVE StripDataAttrs(_)
StripDataAttrs(s) ==
  LET Cut(i) == IF i = 0 THEN s
                ELSE SubSeq(s, 1, i - 1)
                     \o StripDataAttrs(From(s, DataAttrEnd(s, i) + 1))
  IN Cut(FirstOf({ i \in 1..Len(s) : DataAttrEnd(s, i) # 0 }))

cleanHtmlContent(html) == trim(StripDataAttrs(StripClassAttrs(html)))

-----------------------------------------------------------------------------
(* reactBricksMapper.ts: the schema mapper *)

\* interface ElementorElement
ElementorElement(id, type, tag, settings, children, classes, styles, content, attributes) ==
  [id |-> id, type |-> type, tag |-> tag, settings |-> settings,
   children |-> children, classes |-> classes, styles |-> styles,
   content |-> content, attributes |-> attributes]

\* interface ReactBricksComponent (repeaterItems is never set)
ReactBricksComponent(name, label, category, props, children) ==
  [name |-> name, label |-> label, category |-> category, props |-> props,
   children |-> children]

\* array.includes(x)
Contains(seq, x) == \E i \in DOMAIN seq : seq[i] = x

\* classes.some(cls => cls.includes(part))
SomeIncludes(classes, part) == \E i \in DOMAIN classes : includes(classes[i], part)

SetProp(component, key, value) ==
  [component EXCEPT !.props = Set(@, key, value)]

\* component.name = name; component.label = label
Rename(component, name, label) ==
  [component EXCEPT !.name = name, !.label = label]

BaseType(type) == replace(replace(type, <<"e", "l", "e", "m", "e", "n", "t", "o", "r", "-">>, <<>>), <<"w", "i", "d", "g", "e", "t", "-">>, <<>>)

elementorTypeToComponentName(type) == BaseType(type) \o <<"-", "b", "l", "o", "c", "k">>

Capitalize(word) ==
  IF word = <<>> THEN <<>> ELSE <<toUpperCase(Head(word))>> \o Tail(word)

elementorTypeToComponentLabel(type) ==
  LET Of(words) == join([i \in DOMAIN words |-> Capitalize(words[i])], <<" ">>)
  IN Of(split(BaseType(type), "-"))

determineCategoryFromType(type) ==
  IF type = <<"s", "e", "c", "t", "i", "o", "n">> THEN <<"L", "a", "y", "o", "u", "t">>
  ELSE IF type = <<"c", "o", "l", "u", "m", "n">> THEN <<"L", "a", "y", "o", "u", "t">>
  ELSE IF includes(type, <<"h", "e", "a", "d", "i", "n", "g">>) THEN <<"T", "y", "p", "o", "g", "r", "a", "p", "h", "y">>
  ELSE IF includes(type, <<"t", "e", "x", "t">>) THEN <<"T", "y", "p", "o", "g", "r", "a", "p", "h", "y">>
  ELSE IF includes(type, <<"i", "m", "a", "g", "e">>) \/ includes(type, <<"v", "i", "d", "e", "o">>) THEN <<"M", "e", "d", "i", "a">>
  ELSE IF includes(type, <<"b", "u", "t", "t", "o", "n">>) THEN <<"C", "a", "l", "l", " ", "t", "o", " ", "A", "c", "t", "i", "o", "n">>
  ELSE IF includes(type, <<"f", "o", "r", "m">>) THEN <<"F", "o", "r", "m", "s">>
  ELSE <<"O", "t", "h", "e", "r">>

\* if (styles[side] || styles.border) props[side] = styles[side] ? true : false,
\* with true whenever either is present
BorderFlagFromAnyBorder(styles, props, side) ==
  IF Truthy(Get(styles, side)) \/ Truthy(Get(styles, <<"b", "o", "r", "d", "e", "r">>))
    THEN Set(props, side, Bool(TRUE))
    ELSE props

\* if (styles[side] || styles.border) props[side] = styles[side] ? true : false
BorderFlag(styles, props, side) ==
  IF Truthy(Get(styles, side)) \/ Truthy(Get(styles, <<"b", "o", "r", "d", "e", "r">>))
    THEN Set(props, side, Bool(Truthy(Get(styles, side))))
    ELSE props

\* each statement of the function is a step from props to props
mapElementorSettingsToProps(element) ==
  LET st(key) == Get(element.styles, key)
      Background(p) ==
        IF Truthy(st(<<"b", "a", "c", "k", "g", "r", "o", "u", "n", "d", "C", "o", "l", "o", "r">>))
          THEN Set(p, <<"b", "a", "c", "k", "g", "r", "o", "u", "n", "d", "C", "o", "l", "o", "r">>,
                   ColorObj(mapBackgroundColor(StrOf(st(<<"b", "a", "c", "k", "g", "r", "o", "u", "n", "d", "C", "o", "l", "o", "r">>)))))
          ELSE p
      Side(p, key) ==
        IF Truthy(st(key)) THEN Set(p, key, Str(mapSinglePadding(StrOf(st(key)))))
        ELSE p
      Padding(p) ==
        IF Truthy(st(<<"p", "a", "d", "d", "i", "n", "g">>))
          THEN Set(p, <<"p", "a", "d", "d", "i", "n", "g">>, Str(mapPadding(StrOf(st(<<"p", "a", "d", "d", "i", "n", "g">>)))))
          ELSE Side(Side(Side(Side(p, <<"p", "a", "d", "d", "i", "n", "g", "T", "o", "p">>), <<"p", "a", "d", "d", "i", "n", "g", "B", "o", "t", "t", "o", "m">>),
                         <<"p", "a", "d", "d", "i", "n", "g", "L", "e", "f", "t">>), <<"p", "a", "d", "d", "i", "n", "g", "R", "i", "g", "h", "t">>)
      Margin(p) ==
        IF Truthy(st(<<"m", "a", "r", "g", "i", "n">>))
          THEN Set(p, <<"m", "a", "r", "g", "i", "n">>, Str(mapMargin(StrOf(st(<<"m", "a", "r", "g", "i", "n">>)))))
          ELSE p
      BorderTop(p) == BorderFlag(element.styles, p, <<"b", "o", "r", "d", "e", "r", "T", "o", "p">>)
      BorderBottom(p) == BorderFlag(element.styles, p, <<"b", "o", "r", "d", "e", "r", "B", "o", "t", "t", "o", "m">>)
      TextAlign(p) ==
        IF Truthy(st(<<"t", "e", "x", "t", "A", "l", "i", "g", "n">>))
          THEN Set(p, <<"t", "e", "x", "t", "A", "l", "i", "g", "n">>, st(<<"t", "e", "x", "t", "A", "l", "i", "g", "n">>))
          ELSE p
  IN TextAlign(BorderBottom(BorderTop(Margin(Padding(Background(
       <<E(<<"b", "a", "c", "k", "g", "r", "o", "u", "n", "d", "C", "o", "l", "o", "r">>, ColorObj(TailwindColor(<<"w", "h", "i", "t", "e">>, <<"b", "g", "-", "w", "h", "i", "t", "e">>))),
         E(<<"p", "a", "d", "d", "i", "n", "g", "T", "o", "p">>, Str(<<"n", "o", "r", "m", "a", "l">>)),
         E(<<"p", "a", "d", "d", "i", "n", "g", "B", "o", "t", "t", "o", "m">>, Str(<<"n", "o", "r", "m", "a", "l">>))>>))))))

mapSection(element, component) ==
  LET Structure(c, structure) ==
        IF Truthy(structure) THEN SetProp(c, <<"s", "t", "r", "u", "c", "t", "u", "r", "e">>, structure) ELSE c
      FullWidth(c) ==
        IF Contains(element.classes, <<"e", "l", "e", "m", "e", "n", "t", "o", "r", "-", "s", "e", "c", "t", "i", "o", "n", "-", "f", "u", "l", "l", "-", "w", "i", "d", "t", "h">>)
          THEN SetProp(c, <<"w", "i", "d", "t", "h">>, Str(<<"f", "u", "l", "l">>)) ELSE c
      Image(c, bgImageUrl, position) ==
        IF bgImageUrl # <<>>
          THEN SetProp(c, <<"b", "a", "c", "k", "g", "r", "o", "u", "n", "d", "I", "m", "a", "g", "e">>,
                 Obj(<<E(<<"s", "o", "u", "r", "c", "e">>, Obj(<<E(<<"s", "r", "c">>, Str(bgImageUrl))>>)),
                       E(<<"p", "o", "s", "i", "t", "i", "o", "n">>,
                         IF Truthy(position) THEN position
                         ELSE Str(<<"c", "e", "n", "t", "e", "r", " ", "c", "e", "n", "t", "e", "r">>))>>))
          ELSE c
      Background(c, bgImageStyle) ==
        IF Truthy(bgImageStyle) /\ includes(StrOf(bgImageStyle), <<"u", "r", "l", "(">>)
          THEN Image(c, CssUrlMatch(StrOf(bgImageStyle)),
                     Get(element.styles, <<"b", "a", "c", "k", "g", "r", "o", "u", "n", "d", "P", "o", "s", "i", "t", "i", "o", "n">>))
          ELSE c
  IN Background(
       FullWidth(Structure(Rename(component, <<"s", "e", "c", "t", "i", "o", "n", "-", "b", "l", "o", "c", "k">>, <<"S", "e", "c", "t", "i", "o", "n">>),
                           Get(element.settings, <<"s", "t", "r", "u", "c", "t", "u", "r", "e">>))),
       Get(element.styles, <<"b", "a", "c", "k", "g", "r", "o", "u", "n", "d", "I", "m", "a", "g", "e">>))

\* thresholds in thousandths: 25, 33.33, 50, 66.66, 75
calculateColumnWidth(columnSize) ==
  LET Width(n) ==
        IF ~n.nan /\ n.v <= 25000 THEN <<"1", "/", "4">>
        ELSE IF ~n.nan /\ n.v <= 33330 THEN <<"1", "/", "3">>
        ELSE IF ~n.nan /\ n.v <= 50000 THEN <<"1", "/", "2">>
        ELSE IF ~n.nan /\ n.v <= 66660 THEN <<"2", "/", "3">>
        ELSE IF ~n.nan /\ n.v <= 75000 THEN <<"3", "/", "4">>
        ELSE <<"f", "u", "l", "l">>
  IN Width(ToNumber(columnSize))

\* mapColumn with the width taken from the parent's type
mapColumnByParent(element, component, parentType) ==
  SetProp(Rename(component, <<"c", "o", "l", "u", "m", "n", "-", "b", "l", "o", "c", "k">>, <<"C", "o", "l", "u", "m", "n">>), <<"w", "i", "d", "t", "h">>,
          IF parentType = Str(<<"s", "e", "c", "t", "i", "o", "n">>) THEN Str(<<"f", "u", "l", "l">>) ELSE Str(<<"1", "/", "2">>))

mapColumn(element, component, parentType) ==
  LET Width(c, size) ==
        IF Truthy(size) THEN SetProp(c, <<"w", "i", "d", "t", "h">>, Str(calculateColumnWidth(size)))
        ELSE c
  IN Width(Rename(component, <<"c", "o", "l", "u", "m", "n", "-", "b", "l", "o", "c", "k">>, <<"C", "o", "l", "u", "m", "n">>),
           Get(element.settings, <<"_", "c", "o", "l", "u", "m", "n", "_", "s", "i", "z", "e">>))

mapHeading(element, component) ==
  LET Tag(c) ==
        SetProp(c, <<"t", "a", "g">>, Str(IF element.tag # <<>> THEN element.tag ELSE <<"h", "2">>))
      Title(c) ==
        IF Truthy(element.content)
          THEN SetProp(c, <<"t", "i", "t", "l", "e">>,
                 Obj(<<E(<<"v", "a", "l", "u", "e">>, Str(cleanHtmlContent(element.content.v)))>>))
          ELSE c
      Size(c, fontSize) ==
        IF Truthy(fontSize) THEN SetProp(c, <<"s", "i", "z", "e">>, Str(mapFontSize(StrOf(fontSize))))
        ELSE c
      IsBold(fontWeight, weight) ==
        fontWeight = <<"b", "o", "l", "d">> \/ (~weight.nan /\ weight.v >= 700)
      Weight(c, fontWeight) ==
        IF Truthy(fontWeight)
          THEN SetProp(c, <<"e", "x", "t", "r", "a", "B", "o", "l", "d", "T", "i", "t", "l", "e">>,
                 Bool(IsBold(StrOf(fontWeight), parseInt(StrOf(fontWeight)))))
          ELSE c
  IN Weight(Size(Title(Tag(Rename(component, <<"h", "e", "a", "d", "i", "n", "g", "-", "b", "l", "o", "c", "k">>, <<"H", "e", "a", "d", "i", "n", "g">>))),
                 Get(element.styles, <<"f", "o", "n", "t", "S", "i", "z", "e">>)),
            Get(element.styles, <<"f", "o", "n", "t", "W", "e", "i", "g", "h", "t">>))

mapTextEditor(element, component) ==
  LET Text(c) ==
        IF Truthy(element.content)
          THEN SetProp(c, <<"t", "e", "x", "t">>,
                 Obj(<<E(<<"v", "a", "l", "u", "e">>, Str(cleanHtmlContent(element.content.v)))>>))
          ELSE c
  IN Text(Rename(component, <<"t", "e", "x", "t", "-", "b", "l", "o", "c", "k">>, <<"T", "e", "x", "t">>))

mapImage(element, component) ==
  LET Url(fromContent, image) ==
        IF fromContent = <<>> /\ Truthy(image) /\ Truthy(GetIn(image, <<"u", "r", "l">>))
          THEN GetIn(image, <<"u", "r", "l">>) ELSE Str(fromContent)
      Source(c, imageUrl, altText) ==
        IF Truthy(imageUrl)
          THEN SetProp(c, <<"i", "m", "a", "g", "e", "S", "o", "u", "r", "c", "e">>,
                 Obj(<<E(<<"s", "r", "c">>, imageUrl),
                       E(<<"a", "l", "t">>, IF Truthy(altText) THEN altText ELSE Str(<<>>))>>))
          ELSE c
      Size(c, imageSize) ==
        IF Truthy(imageSize) THEN SetProp(c, <<"s", "i", "z", "e">>, imageSize) ELSE c
      Rounded(c) ==
        IF Truthy(Get(element.styles, <<"b", "o", "r", "d", "e", "r", "R", "a", "d", "i", "u", "s">>))
           \/ SomeIncludes(element.classes, <<"r", "o", "u", "n", "d", "e", "d">>)
          THEN SetProp(c, <<"i", "s", "R", "o", "u", "n", "d", "e", "d">>, Bool(TRUE)) ELSE c
      Shadow(c) ==
        IF Truthy(Get(element.styles, <<"b", "o", "x", "S", "h", "a", "d", "o", "w">>))
           \/ SomeIncludes(element.classes, <<"s", "h", "a", "d", "o", "w">>)
          THEN SetProp(c, <<"h", "a", "s", "S", "h", "a", "d", "o", "w">>, Bool(TRUE)) ELSE c
  IN Shadow(Rounded(Size(
       Source(Rename(component, <<"i", "m", "a", "g", "e", "-", "b", "l", "o", "c", "k">>, <<"I", "m", "a", "g", "e">>),
              Url(IF Truthy(element.content) THEN ImgSrcMatch(element.content.v)
                  ELSE <<>>,
                  Get(element.settings, <<"i", "m", "a", "g", "e">>)),
              Get(element.settings, <<"a", "l", "t", "_", "t", "e", "x", "t">>)),
       Get(element.settings, <<"i", "m", "a", "g", "e", "_", "s", "i", "z", "e">>))))

\* the same checks with the outline marker looked for first
ButtonTypeOutlineFirst(classes) ==
  IF Contains(classes, <<"e", "l", "e", "m", "e", "n", "t", "o", "r", "-", "b", "u", "t", "t", "o", "n", "-", "o", "u", "t", "l", "i", "n", "e">>) THEN <<"o", "u", "t", "l", "i", "n", "e">>
  ELSE IF Contains(classes, <<"e", "l", "e", "m", "e", "n", "t", "o", "r", "-", "b", "u", "t", "t", "o", "n", "-", "l", "i", "n", "k">>) THEN <<"l", "i", "n", "k">>
  ELSE <<"s", "o", "l", "i", "d">>

\* the if / else if / else on the marker classes
ButtonType(classes) ==
  IF Contains(classes, <<"e", "l", "e", "m", "e", "n", "t", "o", "r", "-", "b", "u", "t", "t", "o", "n", "-", "l", "i", "n", "k">>) THEN <<"l", "i", "n", "k">>
  ELSE IF Contains(classes, <<"e", "l", "e", "m", "e", "n", "t", "o", "r", "-", "b", "u", "t", "t", "o", "n", "-", "o", "u", "t", "l", "i", "n", "e">>) THEN <<"o", "u", "t", "l", "i", "n", "e">>
  ELSE <<"s", "o", "l", "i", "d">>

mapButton(element, component) ==
  LET Text(c, textMatch) ==
        IF Truthy(element.content) /\ textMatch # <<>>
          THEN SetProp(c, <<"t", "e", "x", "t">>, Str(trim(textMatch))) ELSE c
      Href(c, linkMatch) ==
        IF linkMatch # <<>> THEN SetProp(c, <<"h", "r", "e", "f">>, Str(linkMatch)) ELSE c
      Type(c) == SetProp(c, <<"t", "y", "p", "e">>, Str(ButtonType(element.classes)))
      ColorProp(bc) == Obj(<<E(<<"v", "a", "l", "u", "e">>, Str(bc.value)), E(<<"l", "a", "b", "e", "l">>, Str(bc.label))>>)
      Color(c, bg) ==
        IF Truthy(bg)
          THEN SetProp(c, <<"b", "u", "t", "t", "o", "n", "C", "o", "l", "o", "r">>, ColorProp(mapButtonColor(StrOf(bg))))
          ELSE c
      Big(c) ==
        IF Contains(element.classes, <<"e", "l", "e", "m", "e", "n", "t", "o", "r", "-", "s", "i", "z", "e", "-", "l", "g">>)
           \/ Contains(element.classes, <<"e", "l", "e", "m", "e", "n", "t", "o", "r", "-", "s", "i", "z", "e", "-", "x", "l">>)
          THEN SetProp(c, <<"i", "s", "B", "i", "g", "B", "u", "t", "t", "o", "n">>, Bool(TRUE)) ELSE c
  IN Big(Color(Type(Href(Text(Rename(component, <<"b", "u", "t", "t", "o", "n", "-", "b", "l", "o", "c", "k">>, <<"B", "u", "t", "t", "o", "n">>),
                              DirectTextMatch(StrOf(element.content))),
                         HrefMatch(StrOf(element.content)))),
               Get(element.styles, <<"b", "a", "c", "k", "g", "r", "o", "u", "n", "d", "C", "o", "l", "o", "r">>)))

mapVideo(element, component) ==
  LET File(c, isFile, videoUrl) ==
        IF isFile /\ videoUrl # <<>>
          THEN SetProp(c, <<"v", "i", "d", "e", "o", "F", "i", "l", "e">>,
                 Obj(<<E(<<"n", "a", "m", "e">>, Str(<<"v", "i", "d", "e", "o">>)), E(<<"u", "r", "l">>, Str(videoUrl))>>))
          ELSE c
      Streaming(c, isFile, platform, videoId) ==
        IF ~isFile /\ videoId # <<>>
          THEN SetProp(SetProp(SetProp(c, <<"t", "y", "p", "e">>, Str(<<"s", "t", "r", "e", "a", "m", "i", "n", "g">>)),
                               <<"p", "l", "a", "t", "f", "o", "r", "m">>, Str(platform)),
                       <<"v", "i", "d", "e", "o", "I", "d">>, Str(videoId))
          ELSE SetProp(c, <<"t", "y", "p", "e">>, Str(<<"f", "i", "l", "e">>))
      Detected(c, content, isYoutube, isVimeo, isFile, vimeoId) ==
        Streaming(File(c, isFile, VideoUrlMatch(content)), isFile,
                  IF isVimeo /\ vimeoId # <<>> THEN <<"v", "i", "m", "e", "o">> ELSE <<"y", "o", "u", "t", "u", "b", "e">>,
                  IF isYoutube THEN YoutubeMatch(content)
                  ELSE IF isVimeo THEN vimeoId ELSE <<>>)
      Kind(c, content, isYoutube, isVimeo, videoType) ==
        Detected(c, content, isYoutube, isVimeo,
                 /\ ~isYoutube /\ ~isVimeo
                 /\ \/ includes(content, <<"<", "v", "i", "d", "e", "o">>)
                    \/ Truthy(videoType) /\ videoType = Str(<<"h", "o", "s", "t", "e", "d">>),
                 VimeoMatch(content))
      Of(c, content, isYoutube) ==
        Kind(c, content, isYoutube, ~isYoutube /\ includes(content, <<"v", "i", "m", "e", "o">>),
             Get(element.settings, <<"v", "i", "d", "e", "o", "_", "t", "y", "p", "e">>))
  IN Of(Rename(component, <<"v", "i", "d", "e", "o", "-", "b", "l", "o", "c", "k">>, <<"V", "i", "d", "e", "o">>), StrOf(element.content),
        includes(StrOf(element.content), <<"y", "o", "u", "t", "u", "b", "e">>))

mapGenericWidget(element, component) ==
  IF Truthy(element.content)
    THEN SetProp(component, <<"c", "o", "n", "t", "e", "n", "t">>, element.content)
    ELSE component

\* a map that visits the children from the last to the first
MapChildrenReversed(children, mapped) ==
  [i \in DOMAIN children |-> mapped[Len(children) + 1 - i]]

\* component.children = element.children.map(child => map(child, element.type))
MapChildren(children, mapped) == [i \in DOMAIN children |-> mapped[i]]

\* the switch on element.type
MapByType(element, base, parentType) ==
  IF element.type = <<"s", "e", "c", "t", "i", "o", "n">> THEN mapSection(element, base)
  ELSE IF element.type = <<"c", "o", "l", "u", "m", "n">> THEN mapColumn(element, base, parentType)
  ELSE IF element.type = <<"h", "e", "a", "d", "i", "n", "g">> THEN mapHeading(element, base)
  ELSE IF element.type = <<"t", "e", "x", "t", "-", "e", "d", "i", "t", "o", "r">> THEN mapTextEditor(element, base)
  ELSE IF element.type = <<"i", "m", "a", "g", "e">> THEN mapImage(element, base)
  ELSE IF element.type = <<"b", "u", "t", "t", "o", "n">> THEN mapButton(element, base)
  ELSE IF element.type = <<"v", "i", "d", "e", "o">> THEN mapVideo(element, base)
  ELSE IF startsWith(element.type, <<"w", "i", "d", "g", "e", "t", "-">>) THEN mapGenericWidget(element, base)
  ELSE base

RECURSIVE mapElementorToReactBricks(_, _)
mapElementorToReactBricks(element, parentType) ==
  LET WithChildren(component) ==
        IF Len(element.children) > 0
          THEN [component EXCEPT !.children =
                  MapChildren(element.children,
                    [i \in DOMAIN element.children |->
                       mapElementorToReactBricks(element.children[i],
                                                 Str(element.type))])]
          ELSE component
  IN WithChildren(
       MapByType(element,
                 ReactBricksComponent(
                   elementorTypeToComponentName(element.type),
                   elementorTypeToComponentLabel(element.type),
                   determineCategoryFromType(element.type),
                   mapElementorSettingsToProps(element),
                   <<>>),
                 parentType))

-----------------------------------------------------------------------------
(* codeGenerator.ts: the code generator.  Text is a sequence of fragments. *)

\* component.<field> for a field the description may not have: undefined
FieldOf(component, field) ==
  IF field \in DOMAIN component THEN component[field] ELSE Undef

\* the outcome of a call: text, or a raised TypeError
Returned(text) == [threw |-> FALSE, text |-> text]
Thrown == [threw |-> TRUE, text |-> <<>>]

\* component.type === t || component.name.includes(part)
IsFamily(component, t, part) ==
  FieldOf(component, "type") = Str(t) \/ includes(component.name, part)

\* imports.add(line) for each line in turn: a Set keeps insertion order and
\* ignores a repeat
RECURSIVE AddAll(_, _)
AddAll(imports, lines) ==
  IF lines = <<>> THEN imports
  ELSE IF Contains(imports, Head(lines)) THEN AddAll(imports, Tail(lines))
  ELSE AddAll(Append(imports, Head(lines)), Tail(lines))

BaseImports ==
  <<"import React from 'react'",
    "import classNames from 'classnames'",
    "import { types } from 'react-bricks/rsc'">>

SectionImports ==
  <<"import { Link, RichText, Image, Repeater } from 'react-bricks/rsc'",
    "import Section from '@reactbricksui/shared/components/Section'",
    "import Container from '@reactbricksui/shared/components/Container'",
    "import { sectionDefaults, backgroundSideGroup, paddingBordersSideGroup } from '@reactbricksui/LayoutSideProps'",
    "import { textColors, buttonColors, highlightBgColors } from '@reactbricksui/colors'",
    "import { photos } from '@reactbricksui/shared/defaultImages'">>

TextImports ==
  <<"import { RichText } from 'react-bricks/rsc'",
    "import { textColors } from '@reactbricksui/colors'">>

ImageImports ==
  <<"import { Image } from 'react-bricks/rsc'",
    "import { photos } from '@reactbricksui/shared/defaultImages'">>

VideoImports == <<"import Video from '@reactbricksui/shared/components/Video'">>

ButtonImports ==
  <<"import { buttonColors } from '@reactbricksui/colors'",
    "import { Link } from 'react-bricks/rsc'">>

RepeaterImports == <<"import { Repeater } from 'react-bricks/rsc'">>

\* the lines one node adds, in the order of its imports.add calls, before its
\* children are visited
OwnImports(component) ==
  LET Section ==
        IF IsFamily(component, <<"s", "e", "c", "t", "i", "o", "n">>, <<"s", "e", "c", "t", "i", "o", "n">>)
          THEN SectionImports ELSE <<>>
      Text ==
        IF \/ includes(component.name, <<"t", "e", "x", "t">>)
           \/ includes(component.name, <<"h", "e", "a", "d", "i", "n", "g">>)
           \/ FieldOf(component, "type") = Str(<<"h", "e", "a", "d", "i", "n", "g">>)
           \/ FieldOf(component, "type") = Str(<<"t", "e", "x", "t", "-", "e", "d", "i", "t", "o", "r">>)
          THEN TextImports ELSE <<>>
      Image ==
        IF IsFamily(component, <<"i", "m", "a", "g", "e">>, <<"i", "m", "a", "g", "e">>) THEN ImageImports ELSE <<>>
      Video ==
        IF IsFamily(component, <<"v", "i", "d", "e", "o">>, <<"v", "i", "d", "e", "o">>) THEN VideoImports ELSE <<>>
      Button ==
        IF IsFamily(component, <<"b", "u", "t", "t", "o", "n">>, <<"b", "u", "t", "t", "o", "n">>)
          THEN ButtonImports ELSE <<>>
      Repeater(repeaterItems) ==
        IF repeaterItems.t = "object" /\ Len(repeaterItems.v) > 0
          THEN RepeaterImports ELSE <<>>
  IN BaseImports \o Section \o Text \o Image \o Video \o Button
       \o Repeater(FieldOf(component, "repeaterItems"))

\* the lines of the node itself, its children not visited
RootImports(component) == OwnImports(component)

\* the lines a node and its descendants add, in visiting order:
\* component.children.forEach(child => addRequiredImports(child, imports))
RECURSIVE RequiredImports(_)
RECURSIVE ChildrenImports(_)
RequiredImports(component) ==
  OwnImports(component) \o ChildrenImports(component.children)

ChildrenImports(children) ==
  IF children = <<>> THEN <<>>
  ELSE RequiredImports(Head(children)) \o ChildrenImports(Tail(children))

addRequiredImports(component, imports) ==
  AddAll(imports, RequiredImports(component))

\* [...new Set(imports)].join('\n') + '\n\n'
generateImports(imports) ==
  LET Lines(uniq) == join([i \in DOMAIN uniq |-> <<uniq[i]>>], <<"\n">>)
  IN Lines(AddAll(<<>>, imports)) \o <<"\n\n">>

IsPascalSeparator(ch) == ch \in {"-", "_", "."} \/ IsSpace(ch)

\* str.split(/[-_\s.]+/)
RECURSIVE SplitPascal(_)
SplitPascal(s) ==
  LET After(e, n) ==
        <<SubSeq(s, 1, e - 1)>> \o SplitPascal(IF n = 0 THEN <<>> ELSE From(s, n))
      Word(e) ==
        IF e = 0 THEN <<s>>
        ELSE After(e, FirstOf({ j \in e..Len(s) : ~IsPascalSeparator(s[j]) }))
  IN Word(FirstOf({ i \in 1..Len(s) : IsPascalSeparator(s[i]) }))

PascalWord(word) ==
  IF word = <<>> THEN <<>>
  ELSE <<toUpperCase(Head(word))>> \o MapChars(Tail(word), toLowerCase)

pascalCase(str) ==
  LET Of(words) == join([i \in DOMAIN words |-> PascalWord(words[i])], <<>>)
  IN Of(SplitPascal(str))

determinePropType(value) ==
  CASE value.t = "undefined" -> "any"
    [] value.t = "null" -> "any"
    [] value.t = "boolean" -> "boolean"
    [] value.t = "number" -> "number"
    [] value.t = "string" -> "string"
    [] value.t = "array" -> "any[]"
    [] value.t = "object" -> "Record<string, any>"
    [] OTHER -> "any"

\* JSON.stringify of a string
JSONstringify(s) ==
  LET Esc(ch) == IF ch = "\"" THEN <<"\\", "\"">>
                 ELSE IF ch = "\\" THEN <<"\\", "\\">>
                 ELSE IF ch = "\n" THEN <<"\\", "n">>
                 ELSE <<ch>>
  IN <<"\"">> \o join([i \in DOMAIN s |-> Esc(s[i])], <<>>) \o <<"\"">>

\* html.replace(/<\/?[^>]+(>|$)/g, '').trim(): every tag, closed or cut short
RECURSIVE StripTags(_)
StripTags(s) ==
  LET Cut(i, gt) ==
        IF gt = 0 THEN SubSeq(s, 1, i - 1)
        ELSE SubSeq(s, 1, i - 1) \o StripTags(From(s, gt + 1))
      At(i) ==
        IF i = 0 THEN s ELSE Cut(i, FirstOf({ j \in (i + 2)..Len(s) : s[j] = ">" }))
  IN At(FirstOf({ i \in 1..Len(s) : s[i] = "<" /\ i + 1 <= Len(s) /\ s[i + 1] # ">" }))

CleanText(html) == trim(StripTags(html))

InterfaceKnownProps ==
  { <<"b", "a", "c", "k", "g", "r", "o", "u", "n", "d", "C", "o", "l", "o", "r">>, <<"b", "o", "r", "d", "e", "r", "T", "o", "p">>, <<"b", "o", "r", "d", "e", "r", "B", "o", "t", "t", "o", "m">>, <<"p", "a", "d", "d", "i", "n", "g", "T", "o", "p">>,
    <<"p", "a", "d", "d", "i", "n", "g", "B", "o", "t", "t", "o", "m">>, <<"t", "i", "t", "l", "e">>, <<"t", "e", "x", "t">>, <<"i", "m", "a", "g", "e", "S", "o", "u", "r", "c", "e">>, <<"t", "a", "g">>,
    <<"e", "x", "t", "r", "a", "B", "o", "l", "d", "T", "i", "t", "l", "e">>, <<"t", "e", "x", "t", "A", "l", "i", "g", "n">>, <<"i", "s", "R", "o", "u", "n", "d", "e", "d">>, <<"h", "a", "s", "S", "h", "a", "d", "o", "w">>, <<"h", "r", "e", "f">>,
    <<"b", "u", "t", "t", "o", "n", "C", "o", "l", "o", "r">>, <<"t", "y", "p", "e">>, <<"i", "s", "B", "i", "g", "B", "u", "t", "t", "o", "n">> }

DestructureKnownProps ==
  InterfaceKnownProps \cup
  { <<"i", "m", "a", "g", "e", "S", "i", "d", "e">>, <<"b", "i", "g", "I", "m", "a", "g", "e">>, <<"m", "o", "b", "i", "l", "e", "I", "m", "a", "g", "e", "T", "o", "p">>, <<"v", "e", "r", "t", "i", "c", "a", "l", "A", "l", "i", "g", "n">>,
    <<"m", "e", "d", "i", "a", "T", "y", "p", "e">>, <<"b", "u", "t", "t", "o", "n", "s">> }

\* the lines a family adds when the component belongs to it
FamilyLines(component, t, part, lines) ==
  IF IsFamily(component, t, part) THEN lines ELSE <<>>

InterfaceLines(component) ==
  <<"  backgroundColor?: any;\n", "  borderTop?: boolean;\n",
    "  borderBottom?: boolean;\n", "  paddingTop?: string;\n",
    "  paddingBottom?: string;\n">>
  \o FamilyLines(component, <<"h", "e", "a", "d", "i", "n", "g">>, <<"h", "e", "a", "d", "i", "n", "g">>,
       <<"  title?: types.TextValue;\n", "  tag?: string;\n",
         "  extraBoldTitle?: boolean;\n">>)
  \o FamilyLines(component, <<"t", "e", "x", "t", "-", "e", "d", "i", "t", "o", "r">>, <<"t", "e", "x", "t">>,
       <<"  text?: types.TextValue;\n", "  textAlign?: string;\n">>)
  \o FamilyLines(component, <<"i", "m", "a", "g", "e">>, <<"i", "m", "a", "g", "e">>,
       <<"  imageSource?: types.IImageSource;\n", "  isRounded?: boolean;\n",
         "  hasShadow?: boolean;\n">>)
  \o FamilyLines(component, <<"b", "u", "t", "t", "o", "n">>, <<"b", "u", "t", "t", "o", "n">>,
       <<"  text?: string;\n", "  href?: string;\n", "  isTargetBlank?: boolean;\n",
         "  buttonColor?: string;\n", "  type?: \"solid\" | \"outline\" | \"link\";\n",
         "  isBigButton?: boolean;\n">>)
  \o FamilyLines(component, <<"s", "e", "c", "t", "i", "o", "n">>, <<"s", "e", "c", "t", "i", "o", "n">>,
       <<"  imageSide?: \"left\" | \"right\";\n", "  bigImage?: boolean;\n",
         "  mobileImageTop?: boolean;\n",
         "  textAlign?: \"left\" | \"center\" | \"right\";\n",
         "  verticalAlign?: \"top\" | \"center\" | \"bottom\";\n",
         "  mediaType?: \"image\" | \"multiple-images\" | \"video-file\" | \"video-streaming\";\n",
         "  buttons?: types.RepeaterItems;\n">>)

DestructureLines(component) ==
  <<"  backgroundColor,\n", "  borderTop,\n", "  borderBottom,\n",
    "  paddingTop,\n", "  paddingBottom,\n">>
  \o FamilyLines(component, <<"h", "e", "a", "d", "i", "n", "g">>, <<"h", "e", "a", "d", "i", "n", "g">>,
       <<"  title,\n", "  tag = \"h2\",\n", "  extraBoldTitle = false,\n">>)
  \o FamilyLines(component, <<"t", "e", "x", "t", "-", "e", "d", "i", "t", "o", "r">>, <<"t", "e", "x", "t">>,
       <<"  text,\n", "  textAlign = \"left\",\n">>)
  \o FamilyLines(component, <<"i", "m", "a", "g", "e">>, <<"i", "m", "a", "g", "e">>,
       <<"  imageSource,\n", "  isRounded = false,\n", "  hasShadow = false,\n">>)
  \o FamilyLines(component, <<"b", "u", "t", "t", "o", "n">>, <<"b", "u", "t", "t", "o", "n">>,
       <<"  text = \"Button\",\n", "  href = \"#\",\n", "  isTargetBlank = false,\n",
         "  buttonColor,\n", "  type = \"solid\",\n", "  isBigButton = false,\n">>)
  \o FamilyLines(component, <<"s", "e", "c", "t", "i", "o", "n">>, <<"s", "e", "c", "t", "i", "o", "n">>,
       <<"  imageSide = \"right\",\n", "  bigImage = false,\n",
         "  mobileImageTop = false,\n", "  textAlign = \"left\",\n",
         "  verticalAlign = \"center\",\n", "  mediaType = \"image\",\n",
         "  buttons,\n">>)

\* Object.keys(component.props).forEach: one line per prop outside the known list
ExtraPropLines(component, known, Line(_)) ==
  LET Lines(extra) == join([i \in DOMAIN extra |-> Line(extra[i])], <<>>)
  IN Lines(SelectSeq(Keys(component.props), LAMBDA k : k \notin known))

InterfacePropLine(component, propName) ==
  <<"  ">> \o propName \o <<"?: ", determinePropType(Get(component.props, propName)), ";\n">>

DestructurePropLine(propName) == <<"  ">> \o propName \o <<",\n">>

\* String(n) of a number carried in thousandths
NumberToString(n) ==
  LET Fraction(frac) ==
        IF frac = 0 THEN <<>>
        ELSE <<".">>
             \o SubSeq(<<Digits[(frac \div 100) + 1], Digits[((frac \div 10) % 10) + 1],
                         Digits[(frac % 10) + 1]>>,
                       1,
                       IF frac % 10 # 0 THEN 3 ELSE IF frac % 100 # 0 THEN 2 ELSE 1)
      Abs(a) == NatToStr(a \div Scale) \o Fraction(a % Scale)
  IN IF n.nan THEN <<"N", "a", "N">>
     ELSE (IF n.v < 0 THEN <<"-">> ELSE <<>>) \o Abs(IF n.v < 0 THEN 0 - n.v ELSE n.v)

\* `${value}`: the string a template literal puts in place of a value
TemplateString(x) ==
  CASE x.t = "string" -> x.v
    [] x.t = "undefined" -> <<"u", "n", "d", "e", "f", "i", "n", "e", "d">>
    [] x.t = "null" -> <<"n", "u", "l", "l">>
    [] x.t = "boolean" -> IF x.v THEN <<"t", "r", "u", "e">> ELSE <<"f", "a", "l", "s", "e">>
    [] x.t = "number" -> NumberToString(x.v)
    [] OTHER -> <<"[", "o", "b", "j", "e", "c", "t", " ", "O", "b", "j", "e", "c", "t", "]">>

\* a || b
OrElse(a, b) == IF Truthy(a) THEN a ELSE b

\* the grave accent, which a string of this module cannot hold
Backtick == "[grave accent]"

\* content.replace(/[grave accent]/g, backslash + grave accent)
EscapeBackticks(s) ==
  join([i \in DOMAIN s |-> IF s[i] = Backtick THEN <<"\\", Backtick>> ELSE <<s[i]>>], <<>>)

\* /<span[^>]*>(.*?)<\/span>/
SpanTextMatch(s) ==
  LET Open(i) == FirstOf({ j \in (i + 5)..Len(s) : s[j] = ">" })
      Close(open) ==
        IF open = 0 THEN 0
        ELSE FirstOf({ j \in (open + 1)..Len(s) : StartsWithAt(s, <<"<", "/", "s", "p", "a", "n", ">">>, j) })
      Capture(open) == SubSeq(s, open + 1, Close(open) - 1)
      At(i) == IF i = 0 THEN <<>> ELSE Capture(Open(i))
  IN At(FirstOf({ i \in 1..Len(s) :
                    StartsWithAt(s, <<"<", "s", "p", "a", "n">>, i) /\ Close(Open(i)) # 0 }))

IsHeadingChild(child) == IsFamily(child, <<"h", "e", "a", "d", "i", "n", "g">>, <<"h", "e", "a", "d", "i", "n", "g">>)
IsTextChild(child) == IsFamily(child, <<"t", "e", "x", "t", "-", "e", "d", "i", "t", "o", "r">>, <<"t", "e", "x", "t">>)
IsButtonChild(child) == IsFamily(child, <<"b", "u", "t", "t", "o", "n">>, <<"b", "u", "t", "t", "o", "n">>)
IsImageChild(child) == IsFamily(child, <<"i", "m", "a", "g", "e">>, <<"i", "m", "a", "g", "e">>)

\* child.content ? child.content.replace(tags, '').trim() : fallback
ChildText(child, fallback) ==
  IF Truthy(FieldOf(child, "content"))
    THEN CleanText(StrOf(FieldOf(child, "content"))) ELSE fallback

\* one child of a section, in the content column
SectionChildJSX(child) ==
  LET ButtonText(content, textMatch) ==
        IF Truthy(content) /\ textMatch # <<>> THEN textMatch ELSE <<"B", "u", "t", "t", "o", "n">>
      ButtonLink(content, linkMatch) ==
        IF Truthy(content) /\ linkMatch # <<>> THEN linkMatch ELSE <<"#">>
      Button(content) ==
<<"            <div className={classNames(\"flex mt-4\", justifyContentClass)}>\n",
  "              <Link\n">>
        \o <<"                href=\"">>
        \o ButtonLink(content, HrefMatch(StrOf(content))) \o <<"\"\n">>
        \o
<<"                className={classNames(\n",
  "                  \"inline-block px-5 py-3 rounded-md font-bold\",\n",
  "                  \"transition-all ease-out duration-150\",\n",
  "                  \"text-white bg-blue-600 hover:bg-blue-700\"\n",
  "                )}\n",
  "              >\n">>
        \o <<"                ">>
        \o ButtonText(content, trim(SpanTextMatch(StrOf(content)))) \o <<"\n">>
        \o
<<"              </Link>\n",
  "            </div>\n">>
  IN IF IsHeadingChild(child) THEN
<<"            <RichText\n",
  "              propName=\"title\"\n">>
       \o <<"              value={{ text: ">>
       \o JSONstringify(ChildText(child, <<"H", "e", "a", "d", "i", "n", "g">>)) \o <<" }}\n">>
       \o
<<"              renderBlock={(props) => (\n",
  "                <h2\n",
  "                  className={classNames(\n",
  "                    \"mt-0 text-2xl leading-7\",\n",
  "                    extraBoldTitle ? \"font-extrabold\" : \"font-bold\",\n",
  "                    \"mb-4\",\n",
  "                    titleColor\n",
  "                  )}\n",
  "                  {...props.attributes}\n",
  "                >\n",
  "                  {props.children}\n",
  "                </h2>\n",
  "              )}\n",
  "              placeholder=\"Type a title...\"\n",
  "              allowedFeatures={[types.RichTextFeatures.Highlight]}\n",
  "            />\n">>
     ELSE IF IsTextChild(child) THEN
<<"            <RichText\n",
  "              propName=\"text\"\n">>
       \o <<"              value={{ text: ">>
       \o JSONstringify(ChildText(child, <<"T", "e", "x", "t", " ", "c", "o", "n", "t", "e", "n", "t">>)) \o <<" }}\n">>
       \o
<<"              renderBlock={(props) => (\n",
  "                <p\n",
  "                  className={classNames(\n",
  "                    \"leading-7 mb-4\",\n",
  "                    textColor\n",
  "                  )}\n",
  "                  {...props.attributes}\n",
  "                >\n",
  "                  {props.children}\n",
  "                </p>\n",
  "              )}\n",
  "              placeholder=\"Type content here...\"\n",
  "              allowedFeatures={[\n",
  "                types.RichTextFeatures.Bold,\n",
  "                types.RichTextFeatures.Link,\n",
  "              ]}\n",
  "              renderLink={({ children, href, target, rel }) => (\n",
  "                <Link\n",
  "                  href={href}\n",
  "                  target={target}\n",
  "                  rel={rel}\n",
  "                  className=\"inline-block text-sky-500 hover:text-sky-600 hover:-translate-y-px transition-all ease-out duration-150\"\n",
  "                >\n",
  "                  {children}\n",
  "                </Link>\n",
  "              )}\n",
  "            />\n">>
     ELSE IF IsButtonChild(child) THEN Button(FieldOf(child, "content"))
     ELSE <<>>

\* the media column, built from the first image child
SectionImageJSX(imageChild) ==
  LET Url(content, imgMatch, fromSet) ==
        IF Truthy(fromSet) THEN fromSet
        ELSE IF Truthy(content) /\ imgMatch # <<>> THEN Str(imgMatch)
        ELSE Str(<<>>)
      Source(imageUrl, settings) ==
        IF Truthy(imageUrl)
          THEN <<"              source={{\n", "                src: \"">>
               \o TemplateString(imageUrl) \o <<"\",\n", "                alt: \"">>
               \o TemplateString(OrElse(GetIn(settings, <<"a", "l", "t", "_", "t", "e", "x", "t">>), Str(<<"I", "m", "a", "g", "e">>)))
               \o <<"\"\n", "              }}\n">>
          ELSE <<"              source={imageSource}\n">>
      Of(content, settings) ==
<<"          <div className=\"w-full md:w-1/2 mt-6 md:mt-0\">\n",
  "            <Image\n",
  "              propName=\"imageSource\"\n">>
        \o Source(Url(content, ImgSrcMatch(StrOf(content)),
                      GetIn(GetIn(settings, <<"i", "m", "a", "g", "e">>), <<"u", "r", "l">>)),
                  settings)
        \o
<<"              alt=\"Image\"\n",
  "              imageClassName={classNames(\n",
  "                { \"rounded-lg\": isRounded },\n",
  "                { \"shadow-2xl\": hasShadow },\n",
  "                { \"md:h-[500px] md:max-w-none object-cover\": bigImage }\n",
  "              )}\n",
  "            />\n",
  "          </div>\n">>
  IN Of(FieldOf(imageChild, "content"), FieldOf(imageChild, "settings"))

\* an html block baked through dangerouslySetInnerHTML at a given indentation
InnerHtmlJSX(indent, content) ==
  <<indent, "<div dangerouslySetInnerHTML={{ __html: ", Backtick, "\n">>
  \o <<indent, "  ">> \o EscapeBackticks(StrOf(content)) \o <<"\n">>
  \o <<indent, Backtick, " }} />\n">>

generateSectionJSX(component) ==
  LET children == component.children
      Some(Test(_)) == Len(children) > 0 /\ \E i \in DOMAIN children : Test(children[i])
      BackgroundImage(settings, bgUrl) ==
        IF GetIn(settings, <<"b", "a", "c", "k", "g", "r", "o", "u", "n", "d", "_", "b", "a", "c", "k", "g", "r", "o", "u", "n", "d">>) = Str(<<"c", "l", "a", "s", "s", "i", "c">>)
           /\ Truthy(bgUrl)
          THEN <<"      backgroundImage={{ src: \"">> \o TemplateString(bgUrl)
               \o <<"\" }}\n">>
          ELSE <<>>
      Background(settings) ==
        BackgroundImage(settings, GetIn(GetIn(settings, <<"b", "a", "c", "k", "g", "r", "o", "u", "n", "d", "_", "i", "m", "a", "g", "e">>), <<"u", "r", "l">>))
      Content(hasContent, hasImages) ==
        IF hasContent
          THEN
<<"        <div className=\"relative flex flex-col md:flex-row items-center\">\n",
  "          <div className={classNames(\n",
  "            \"w-full md:w-1/2 flex flex-col\",\n",
  "            textAlignClass\n",
  "          )}>\n">>
               \o join([i \in DOMAIN children |-> SectionChildJSX(children[i])], <<>>)
               \o <<"          </div>\n">>
               \o (IF hasImages
                     THEN SectionImageJSX(
                            children[FirstOf({ i \in DOMAIN children :
                                                 IsImageChild(children[i]) })])
                     ELSE <<>>)
               \o <<"        </div>\n">>
          ELSE <<"        <div className=\"relative flex flex-wrap\">\n">>
               \o (IF Truthy(FieldOf(component, "content"))
                     THEN InnerHtmlJSX("          ", FieldOf(component, "content"))
                     ELSE <<"          {/* Section content */}\n">>)
               \o <<"        </div>\n">>
      Media(hasImages) ==
        Content(Some(IsHeadingChild) \/ Some(IsTextChild) \/ Some(IsButtonChild)
                \/ hasImages,
                hasImages)
  IN
<<"    <Section\n",
  "      backgroundColor={backgroundColor}\n",
  "      borderTop={borderTop}\n",
  "      borderBottom={borderBottom}\n">>
     \o Background(FieldOf(component, "settings"))
     \o
<<"    >\n",
  "      <Container paddingTop={paddingTop} paddingBottom={paddingBottom}>\n">>
     \o (IF Truthy(GetIn(Get(component.props, <<"b", "a", "c", "k", "g", "r", "o", "u", "n", "d", "C", "o", "l", "o", "r">>), <<"c", "l", "a", "s", "s", "N", "a", "m", "e">>))
           THEN
<<"        <div className={classNames(\n",
  "          \"absolute inset-0 opacity-90 z-0\",\n",
  "          ",
  Backtick,
  "${backgroundColor.className}",
  Backtick,
  "\n",
  "        )}>\n",
  "        </div>\n">>
           ELSE <<>>)
     \o Media(Some(IsImageChild))
     \o
<<"      </Container>\n",
  "    </Section>\n">>

\* one child of a column: a preview line
ColumnChildJSX(child, index) ==
  LET Heading(headingTag, number) ==
        <<"        <">> \o headingTag \o <<" className=\"font-bold\">">>
        \o ChildText(child, <<"H", "e", "a", "d", "i", "n", "g", " ">> \o number)
        \o <<"</">> \o headingTag \o <<">\n">>
      Of(content, number) ==
        IF IsHeadingChild(child)
          THEN Heading(TemplateString(OrElse(FieldOf(child, "tag"), Str(<<"h", "2">>))),
                       number)
        ELSE IF IsTextChild(child)
          THEN <<"        <p>">> \o ChildText(child, <<"T", "e", "x", "t", " ", "c", "o", "n", "t", "e", "n", "t", " ">> \o number)
               \o <<"</p>\n">>
        ELSE IF Truthy(content) THEN InnerHtmlJSX("        ", content)
        ELSE <<"        {/* Child component ">> \o number \o <<" (">>
             \o TemplateString(OrElse(FieldOf(child, "type"), Str(child.name)))
             \o <<") */}\n">>
  IN Of(FieldOf(child, "content"), NatToStr(index + 1))

generateColumnJSX(component) ==
  LET children == component.children
      width == OrElse(Get(component.props, <<"w", "i", "d", "t", "h">>), Str(<<"f", "u", "l", "l">>))
  IN <<"    <div className=\"w-full md:w-">> \o TemplateString(width) \o <<" p-4\">\n">>
     \o (IF Len(children) > 0
           THEN <<"      <div className=\"flex flex-col space-y-4\">\n">>
                \o join([i \in DOMAIN children |-> ColumnChildJSX(children[i], i - 1)], <<>>)
                \o <<"      </div>\n">>
         ELSE IF Truthy(FieldOf(component, "content"))
           THEN InnerHtmlJSX("      ", FieldOf(component, "content"))
         ELSE <<"      {/* Column content */}\n">>)
     \o <<"    </div>\n">>

generateHeadingJSX(component) ==
  LET headingContent == OrElse(FieldOf(component, "content"), Str(<<"H", "e", "a", "d", "i", "n", "g">>))
      fontSize ==
        TemplateString(OrElse(
          GetIn(FieldOf(component, "settings"), <<"t", "y", "p", "o", "g", "r", "a", "p", "h", "y", "_", "f", "o", "n", "t", "_", "s", "i", "z", "e">>),
          Str(<<"2", "x", "l">>)))
      Of(headingTag) ==
<<"    <RichText\n",
  "      propName=\"title\"\n">>
        \o <<"      value={title || { text: ">>
        \o JSONstringify(CleanText(StrOf(headingContent))) \o <<" }}\n">>
        \o
<<"      renderBlock={(props) => (\n">>
        \o <<"        <">> \o headingTag \o <<"\n">>
        \o
<<"          className={classNames(\n">>
        \o <<"            \"mt-0 text-">> \o fontSize \o <<" leading-7\",\n">>
        \o
<<"            extraBoldTitle ? \"font-extrabold\" : \"font-bold\",\n",
  "            \"mb-3\",\n",
  "            titleColor\n",
  "          )}\n",
  "          {...props.attributes}\n",
  "        >\n",
  "          {props.children}\n">>
        \o <<"        </">> \o headingTag \o <<">\n">>
        \o
<<"      )}\n",
  "      placeholder=\"Type a title...\"\n",
  "      allowedFeatures={[types.RichTextFeatures.Highlight]}\n",
  "    />\n">>
  IN Of(TemplateString(OrElse(FieldOf(component, "tag"),
                              OrElse(Get(component.props, <<"t", "a", "g">>), Str(<<"h", "2">>)))))

\* /alt=["'](.*?)["']/
AltMatch(s) == QuotedAfter(s, <<"a", "l", "t", "=">>, 1)

\* component.styles.textAlign raises when the description carries no styles
generateTextJSX(component) ==
  LET textContent == OrElse(FieldOf(component, "content"), Str(<<"T", "e", "x", "t", " ", "c", "o", "n", "t", "e", "n", "t">>))
      AlignClass(textAlign) ==
        IF textAlign = Str(<<"c", "e", "n", "t", "e", "r">>) THEN <<"t", "e", "x", "t", "-", "c", "e", "n", "t", "e", "r">>
        ELSE IF textAlign = Str(<<"r", "i", "g", "h", "t">>) THEN <<"t", "e", "x", "t", "-", "r", "i", "g", "h", "t">>
        ELSE <<"t", "e", "x", "t", "-", "l", "e", "f", "t">>
      Of(styles) ==
        IF styles = Undef THEN Thrown
        ELSE Returned(
<<"    <RichText\n",
  "      propName=\"text\"\n">>
          \o <<"      value={text || { text: ">>
          \o JSONstringify(CleanText(StrOf(textContent))) \o <<" }}\n">>
          \o
<<"      renderBlock={(props) => (\n",
  "        <p\n",
  "          className={classNames(\n",
  "            \"leading-7 mb-3\",\n">>
          \o <<"            \"">>
          \o AlignClass(OrElse(GetIn(styles, <<"t", "e", "x", "t", "A", "l", "i", "g", "n">>),
                               OrElse(Get(component.props, <<"t", "e", "x", "t", "A", "l", "i", "g", "n">>),
                                      Str(<<"l", "e", "f", "t">>))))
          \o <<"\",\n">>
          \o
<<"            textColor\n",
  "          )}\n",
  "          {...props.attributes}\n",
  "        >\n",
  "          {props.children}\n",
  "        </p>\n",
  "      )}\n",
  "      placeholder=\"Type a text...\"\n",
  "      allowedFeatures={[\n",
  "        types.RichTextFeatures.Bold,\n",
  "        types.RichTextFeatures.Link,\n",
  "      ]}\n",
  "      renderLink={({ children, href, target, rel }) => (\n",
  "        <Link\n",
  "          href={href}\n",
  "          target={target}\n",
  "          rel={rel}\n",
  "          className=\"inline-block text-sky-500 hover:text-sky-600 hover:-translate-y-px transition-all ease-out duration-150\"\n",
  "        >\n",
  "          {children}\n",
  "        </Link>\n",
  "      )}\n",
  "    />\n">>
          )
  IN Of(FieldOf(component, "styles"))

generateImageJSX(component) ==
  LET content  == FieldOf(component, "content")
      settings == FieldOf(component, "settings")
      Url(fromSet, imgMatch) ==
        IF Truthy(fromSet) THEN fromSet
        ELSE IF Truthy(content) /\ imgMatch # <<>> THEN Str(imgMatch)
        ELSE Str(<<>>)
      Alt(fromSet, altText, altMatch) ==
        IF Truthy(fromSet) /\ Truthy(altText) THEN altText
        ELSE IF Truthy(content) /\ altMatch # <<>> THEN Str(altMatch)
        ELSE Str(<<"I", "m", "a", "g", "e">>)
      Of(imageUrl, altText) ==
<<"    <Image\n",
  "      propName=\"imageSource\"\n",
  "      source={imageSource || {\n">>
        \o (IF Truthy(imageUrl)
              THEN <<"        src: \"">> \o TemplateString(imageUrl) \o <<"\",\n">>
                   \o <<"        alt: \"">> \o altText \o <<"\",\n">>
              ELSE
<<"        src: photos.DESK_MAC.src,\n",
  "        alt: photos.DESK_MAC.alt,\n">>
           )
        \o
<<"      }}\n">>
        \o <<"      alt=\"">> \o altText \o <<"\"\n">>
        \o
<<"      imageClassName={classNames(\n",
  "        isRounded && \"rounded-lg\",\n",
  "        hasShadow && \"shadow-2xl\"\n",
  "      )}\n",
  "    />\n">>
  IN Of(Url(GetIn(GetIn(settings, <<"i", "m", "a", "g", "e">>), <<"u", "r", "l">>), ImgSrcMatch(StrOf(content))),
        TemplateString(Alt(GetIn(GetIn(settings, <<"i", "m", "a", "g", "e">>), <<"u", "r", "l">>),
                           GetIn(settings, <<"a", "l", "t", "_", "t", "e", "x", "t">>),
                           AltMatch(StrOf(content)))))

\* component.styles.backgroundColor and component.classes.some raise when the
\* description carries no styles or no classes; the text uses none of the locals
generateButtonJSX(component) ==
  IF FieldOf(component, "styles") = Undef \/ FieldOf(component, "classes") = Undef
    THEN Thrown
    ELSE Returned(<<"    <Link\n",
                    "      href={href || \"#\"}\n",
                    "      target={isTargetBlank ? \"_blank\" : undefined}\n",
                    "      className={classNames(\n",
                    "        \"inline-block rounded-md font-bold transition-all ease-out duration-150\",\n",
                    "        isBigButton ? \"px-8 py-4 text-lg\" : \"px-5 py-3 text-base\",\n",
                    "        type === \"solid\" && buttonColor === \"blue\" && \"bg-blue-600 hover:bg-blue-700 text-white\",\n",
                    "        type === \"solid\" && buttonColor === \"green\" && \"bg-green-600 hover:bg-green-700 text-white\",\n",
                    "        type === \"outline\" && \"border-2 bg-transparent\",\n",
                    "        type === \"outline\" && buttonColor === \"blue\" && \"border-blue-600 hover:border-blue-700 text-blue-600 hover:text-blue-700\",\n",
                    "        type === \"link\" && \"px-0 py-0 bg-transparent hover:-translate-y-1\",\n",
                    "        type === \"link\" && buttonColor === \"blue\" && \"text-blue-600 hover:text-blue-700\"\n",
                    "      )}\n",
                    "    >\n",
                    "      {text}\n",
                    "    </Link>\n">>)

generateVideoJSX(component) ==
  LET content == FieldOf(component, "content")
      text == StrOf(FieldOf(component, "content"))
      Id(isYoutube, isVimeo, youtubeId, vimeoId) ==
        IF isYoutube /\ youtubeId # <<>> THEN Str(youtubeId)
        ELSE IF isVimeo /\ vimeoId # <<>> THEN Str(vimeoId)
        ELSE OrElse(Get(component.props, <<"v", "i", "d", "e", "o", "I", "d">>), Str(<<>>))
      Text(videoType, videoId, videoUrl) ==
<<"    <div className=\"aspect-w-16 aspect-h-9 w-full overflow-hidden rounded-lg\">\n">>
        \o (IF videoType = Str(<<"s", "t", "r", "e", "a", "m", "i", "n", "g">>) /\ Truthy(videoId)
              THEN
<<"      <iframe\n",
  "        className=\"w-full h-full\"\n",
  "        src={\n",
  "          videoPlatform === \"youtube\"\n">>
                   \o <<"            ? \"https://www.youtube.com/embed/">>
                   \o TemplateString(videoId) \o <<"\"\n">>
                   \o <<"            : \"https://player.vimeo.com/video/">>
                   \o TemplateString(videoId) \o <<"\"\n">>
                   \o
<<"        }\n",
  "        title=\"Video player\"\n",
  "        allow=\"accelerometer; autoplay; clipboard-write; encrypted-media; gyroscope; picture-in-picture\"\n",
  "        allowFullScreen\n",
  "      />\n">>
              ELSE
<<"      <Video\n",
  "        controls\n",
  "        className=\"w-full h-full\"\n",
  "        autoPlay={false}\n",
  "        muted={false}\n">>
                   \o (IF videoUrl # <<>>
                         THEN <<"        src=\"">> \o videoUrl \o <<"\"\n">>
                         ELSE <<"        src={videoFile?.url || \"\"}\n">>)
                   \o <<"      />\n">>)
        \o <<"    </div>\n">>
      Kind(isYoutube, isVimeo, isFile) ==
        Text(IF isFile THEN Str(<<"f", "i", "l", "e">>)
             ELSE OrElse(Get(component.props, <<"t", "y", "p", "e">>), Str(<<"s", "t", "r", "e", "a", "m", "i", "n", "g">>)),
             Id(isYoutube, isVimeo, YoutubeMatch(text), VimeoMatch(text)),
             IF isFile THEN VideoUrlMatch(text) ELSE <<>>)
      Vimeo(isYoutube, isVimeo) ==
        Kind(isYoutube, isVimeo,
             /\ Truthy(content) /\ ~isYoutube /\ ~isVimeo
             /\ (includes(text, <<".", "m", "p", "4">>) \/ includes(text, <<".", "w", "e", "b", "m">>)))
      Youtube(isYoutube) ==
        Vimeo(isYoutube, Truthy(content) /\ ~isYoutube /\ includes(text, <<"v", "i", "m", "e", "o">>))
  IN Youtube(Truthy(content) /\ includes(text, <<"y", "o", "u", "t", "u", "b", "e">>))

generateGenericWidgetJSX(component) ==
  <<"    <div className=\"p-4 border border-gray-200 rounded-md\">\n",
    "      <div className=\"text-sm text-gray-500 mb-2\">Generic Component</div>\n">>
  \o (IF Truthy(FieldOf(component, "content"))
        THEN InnerHtmlJSX("      ", FieldOf(component, "content"))
        ELSE <<"      <div>Component: ">>
             \o TemplateString(OrElse(Str(component.name),
                  OrElse(FieldOf(component, "type"), Str(<<"U", "n", "k", "n", "o", "w", "n">>))))
             \o <<"</div>\n">>)
  \o <<"    </div>\n">>

BodyLocals(component) ==
  (IF \/ IsFamily(component, <<"h", "e", "a", "d", "i", "n", "g">>, <<"h", "e", "a", "d", "i", "n", "g">>)
      \/ IsFamily(component, <<"t", "e", "x", "t", "-", "e", "d", "i", "t", "o", "r">>, <<"t", "e", "x", "t">>)
     THEN <<"  const titleColor = textColors.GRAY_900;\n",
            "  const textColor = textColors.GRAY_700;\n\n">> ELSE <<>>)
  \o FamilyLines(component, <<"s", "e", "c", "t", "i", "o", "n">>, <<"s", "e", "c", "t", "i", "o", "n">>, <<"  const titleColor = textColors.GRAY_900;\n",
                                                    "  const textColor = textColors.GRAY_700;\n",
                                                    "  const textAlignClass = textAlign === \"center\" ? \"text-center\" : textAlign === \"right\" ? \"text-right\" : \"text-left\";\n",
                                                    "  const justifyContentClass = textAlign === \"center\" ? \"justify-center\" : textAlign === \"right\" ? \"justify-end\" : \"justify-start\";\n",
                                                    "  const itemsAlignClass = textAlign === \"center\" ? \"items-center\" : textAlign === \"right\" ? \"items-end\" : \"items-start\";\n\n">>)

\* the switch on component.type, then the chain on component.name
BodyFamily(component) ==
  LET type == FieldOf(component, "type")
      Named(part) == includes(component.name, part)
  IN IF type = Str(<<"s", "e", "c", "t", "i", "o", "n">>) THEN "section"
     ELSE IF type = Str(<<"c", "o", "l", "u", "m", "n">>) THEN "column"
     ELSE IF type = Str(<<"h", "e", "a", "d", "i", "n", "g">>) THEN "heading"
     ELSE IF type = Str(<<"t", "e", "x", "t", "-", "e", "d", "i", "t", "o", "r">>) THEN "text"
     ELSE IF type = Str(<<"i", "m", "a", "g", "e">>) THEN "image"
     ELSE IF type = Str(<<"b", "u", "t", "t", "o", "n">>) THEN "button"
     ELSE IF type = Str(<<"v", "i", "d", "e", "o">>) THEN "video"
     ELSE IF Named(<<"s", "e", "c", "t", "i", "o", "n">>) THEN "section"
     ELSE IF Named(<<"c", "o", "l", "u", "m", "n">>) THEN "column"
     ELSE IF Named(<<"h", "e", "a", "d", "i", "n", "g">>) THEN "heading"
     ELSE IF Named(<<"t", "e", "x", "t">>) THEN "text"
     ELSE IF Named(<<"i", "m", "a", "g", "e">>) THEN "image"
     ELSE IF Named(<<"b", "u", "t", "t", "o", "n">>) THEN "button"
     ELSE IF Named(<<"v", "i", "d", "e", "o">>) THEN "video"
     ELSE "generic"

generateComponentBody(component) ==
  LET Jsx(family) ==
        CASE family = "section" -> Returned(generateSectionJSX(component))
          [] family = "column" -> Returned(generateColumnJSX(component))
          [] family = "heading" -> Returned(generateHeadingJSX(component))
          [] family = "text" -> generateTextJSX(component)
          [] family = "image" -> Returned(generateImageJSX(component))
          [] family = "button" -> generateButtonJSX(component)
          [] family = "video" -> Returned(generateVideoJSX(component))
          [] OTHER -> Returned(generateGenericWidgetJSX(component))
      Body(jsx) ==
        IF jsx.threw THEN Thrown
        ELSE Returned(BodyLocals(component) \o <<"  return (\n">> \o jsx.text
                      \o <<"  );\n">>)
  IN Body(Jsx(BodyFamily(component)))

generateComponentFunction(component) ==
  LET Function(componentName, body) ==
        IF body.threw THEN Thrown
        ELSE Returned(
          <<"export interface ">> \o componentName \o <<"Props {\n">>
          \o InterfaceLines(component)
          \o ExtraPropLines(component, InterfaceKnownProps,
               LAMBDA propName : InterfacePropLine(component, propName))
          \o <<"}\n\n">>
          \o <<"const ">> \o componentName \o <<": types.Brick<">> \o componentName
          \o <<"Props> = ({\n">>
          \o DestructureLines(component)
          \o ExtraPropLines(component, DestructureKnownProps, DestructurePropLine)
          \o <<"}) => {\n">>
          \o body.text
          \o <<"};\n\n">>)
  IN Function(pascalCase(component.name), generateComponentBody(component))

generateSchema(component) ==
  LET componentName == pascalCase(component.name)
  IN <<"\n">> \o componentName \o <<".schema = {\n">>
     \o <<"  name: '">> \o component.name \o <<"',\n">>
     \o <<"  label: '">> \o component.label \o <<"',\n">>
     \o <<"  category: '">> \o component.category \o <<"',\n">>
     \o (IF IsFamily(component, <<"s", "e", "c", "t", "i", "o", "n">>, <<"s", "e", "c", "t", "i", "o", "n">>) THEN
           <<"  sideEditProps: [\n",
             "    backgroundSideGroup,\n",
             "    paddingBordersSideGroup,\n",
             "  ],\n",
             "  getDefaultProps: () => ({\n",
             "    backgroundColor: { color: \"white\", className: \"bg-white\" },\n",
             "    borderTop: false,\n",
             "    borderBottom: false,\n",
             "    paddingTop: \"0\",\n",
             "    paddingBottom: \"0\",\n",
             "  }),\n">>
         ELSE IF IsFamily(component, <<"h", "e", "a", "d", "i", "n", "g">>, <<"h", "e", "a", "d", "i", "n", "g">>) THEN
           <<"  sideEditProps: [\n",
             "    {\n",
             "      name: \"tag\",\n",
             "      label: \"Tag\",\n",
             "      type: types.SideEditPropType.Select,\n",
             "      selectOptions: [\n",
             "        { value: \"h1\", label: \"H1\" },\n",
             "        { value: \"h2\", label: \"H2\" },\n",
             "        { value: \"h3\", label: \"H3\" },\n",
             "        { value: \"h4\", label: \"H4\" },\n",
             "        { value: \"h5\", label: \"H5\" },\n",
             "        { value: \"h6\", label: \"H6\" },\n",
             "      ],\n",
             "    },\n",
             "    {\n",
             "      name: \"extraBoldTitle\",\n",
             "      label: \"Extra Bold\",\n",
             "      type: types.SideEditPropType.Boolean,\n",
             "    },\n",
             "  ],\n",
             "  getDefaultProps: () => ({\n",
             "    title: { text: \"Heading\" },\n",
             "    tag: \"h2\",\n",
             "    extraBoldTitle: false,\n",
             "  }),\n">>
         ELSE IF IsFamily(component, <<"t", "e", "x", "t", "-", "e", "d", "i", "t", "o", "r">>, <<"t", "e", "x", "t">>) THEN
           <<"  sideEditProps: [\n",
             "    {\n",
             "      name: \"textAlign\",\n",
             "      label: \"Text Align\",\n",
             "      type: types.SideEditPropType.Select,\n",
             "      selectOptions: [\n",
             "        { value: \"left\", label: \"Left\" },\n",
             "        { value: \"center\", label: \"Center\" },\n",
             "        { value: \"right\", label: \"Right\" },\n",
             "      ],\n",
             "    },\n",
             "  ],\n",
             "  getDefaultProps: () => ({\n",
             "    text: {\n",
             "      text: \"Text content goes here.\"\n",
             "    },\n",
             "    textAlign: \"left\",\n",
             "  }),\n">>
         ELSE IF IsFamily(component, <<"i", "m", "a", "g", "e">>, <<"i", "m", "a", "g", "e">>) THEN
           <<"  sideEditProps: [\n",
             "    {\n",
             "      name: \"isRounded\",\n",
             "      label: \"Rounded\",\n",
             "      type: types.SideEditPropType.Boolean,\n",
             "    },\n",
             "    {\n",
             "      name: \"hasShadow\",\n",
             "      label: \"Shadow\",\n",
             "      type: types.SideEditPropType.Boolean,\n",
             "    },\n",
             "  ],\n",
             "  getDefaultProps: () => ({\n",
             "    imageSource: {\n",
             "      src: photos.DESK_MAC.src,\n",
             "      alt: photos.DESK_MAC.alt,\n",
             "      placeholderSrc: photos.DESK_MAC.placeholderSrc,\n",
             "    },\n",
             "    isRounded: false,\n",
             "    hasShadow: false,\n",
             "  }),\n">>
         ELSE IF IsFamily(component, <<"b", "u", "t", "t", "o", "n">>, <<"b", "u", "t", "t", "o", "n">>) THEN
           <<"  sideEditProps: [\n",
             "    {\n",
             "      name: \"text\",\n",
             "      label: \"Button text\",\n",
             "      type: types.SideEditPropType.Text,\n",
             "    },\n",
             "    {\n",
             "      name: \"href\",\n",
             "      label: \"Link\",\n",
             "      type: types.SideEditPropType.Text,\n",
             "    },\n",
             "    {\n",
             "      name: \"isTargetBlank\",\n",
             "      label: \"Open in new tab\",\n",
             "      type: types.SideEditPropType.Boolean,\n",
             "    },\n",
             "    {\n",
             "      name: \"type\",\n",
             "      label: \"Type\",\n",
             "      type: types.SideEditPropType.Select,\n",
             "      selectOptions: [\n",
             "        { value: \"solid\", label: \"Solid\" },\n",
             "        { value: \"outline\", label: \"Outline\" },\n",
             "        { value: \"link\", label: \"Link\" },\n",
             "      ],\n",
             "    },\n",
             "    {\n",
             "      name: \"buttonColor\",\n",
             "      label: \"Color\",\n",
             "      type: types.SideEditPropType.Select,\n",
             "      selectOptions: buttonColors,\n",
             "    },\n",
             "    {\n",
             "      name: \"isBigButton\",\n",
             "      label: \"Big\",\n",
             "      type: types.SideEditPropType.Boolean,\n",
             "    },\n",
             "  ],\n",
             "  getDefaultProps: () => ({\n",
             "    text: \"Button\",\n",
             "    href: \"#\",\n",
             "    type: \"solid\",\n",
             "    buttonColor: \"blue\",\n",
             "    isTargetBlank: false,\n",
             "    isBigButton: false,\n",
             "  }),\n">>
         ELSE IF IsFamily(component, <<"v", "i", "d", "e", "o">>, <<"v", "i", "d", "e", "o">>) THEN
           <<"  sideEditProps: [\n",
             "    {\n",
             "      name: \"type\",\n",
             "      label: \"Video Type\",\n",
             "      type: types.SideEditPropType.Select,\n",
             "      selectOptions: [\n",
             "        { value: \"streaming\", label: \"Streaming (YouTube/Vimeo)\" },\n",
             "        { value: \"file\", label: \"Video File\" },\n",
             "      ],\n",
             "    },\n",
             "    {\n",
             "      name: \"platform\",\n",
             "      label: \"Platform\",\n",
             "      type: types.SideEditPropType.Select,\n",
             "      selectOptions: [\n",
             "        { value: \"youtube\", label: \"YouTube\" },\n",
             "        { value: \"vimeo\", label: \"Vimeo\" },\n",
             "      ],\n",
             "      show: (props) => props.type === \"streaming\",\n",
             "    },\n",
             "    {\n",
             "      name: \"videoId\",\n",
             "      label: \"Video ID\",\n",
             "      type: types.SideEditPropType.Text,\n",
             "      show: (props) => props.type === \"streaming\",\n",
             "    },\n",
             "    {\n",
             "      name: \"videoFile\",\n",
             "      label: \"Video File\",\n",
             "      type: types.SideEditPropType.File,\n",
             "      show: (props) => props.type === \"file\",\n",
             "    },\n",
             "  ],\n",
             "  getDefaultProps: () => ({\n",
             "    type: \"streaming\",\n",
             "    platform: \"youtube\",\n",
             "    videoId: \"dQw4w9WgXcQ\", // Rick Astley\n",
             "    videoFile: null,\n",
             "  }),\n">>
         ELSE <<>>)
     \o <<"};\n">>

\* one accumulator shared by every call that passes none
SharedImports(previous) == previous

\* imports = new Set(): the default accumulator of a call that passes none;
\* previous is what the accumulator of the call before was left holding
DefaultImports(previous) == <<>>

\* the outcome of the call, and the accumulator as the call leaves it
generateReactBricksComponent(component, imports) ==
  LET Outcome(added, function) ==
        [threw   |-> function.threw,
         text    |-> IF function.threw THEN <<>>
                     ELSE generateImports(added) \o function.text
                          \o generateSchema(component)
                          \o <<"\nexport default ">> \o pascalCase(component.name)
                          \o <<";\n">>,
         imports |-> added]
  IN Outcome(addRequiredImports(component, imports),
             generateComponentFunction(component))

-----------------------------------------------------------------------------
(* JSON.parse, as elementorParser.ts applies it to an attribute value.
   Exponents and \u escapes are not read: the attribute values of this model
   carry none. *)

JsonFail == [ok |-> FALSE, v |-> Undef, next |-> 0]
JsonAt(value, next) == [ok |-> TRUE, v |-> value, next |-> next]

SkipWs(s, i) == i + Len(TakeWhile(From(s, i), IsSpace))

\* the characters of a string whose opening quote is just before position i
RECURSIVE JsonChars(_, _)
JsonChars(s, i) ==
  LET Cons(ch, rest) ==
        IF rest.ok THEN JsonAt(<<ch>> \o rest.v, rest.next) ELSE JsonFail
      Escaped(ch) ==
        IF ch \notin {"\"", "\\", "/", "n", "t"} THEN JsonFail
        ELSE Cons(CASE ch = "n" -> "\n" [] ch = "t" -> "\t" [] OTHER -> ch,
                  JsonChars(s, i + 2))
      At(ch) ==
        IF ch \in {"\n", "\t", "\r"} THEN JsonFail
        ELSE IF ch = "\"" THEN JsonAt(<<>>, i + 1)
        ELSE IF ch = "\\" THEN (IF i + 1 > Len(s) THEN JsonFail ELSE Escaped(s[i + 1]))
        ELSE Cons(ch, JsonChars(s, i + 1))
  IN IF i > Len(s) THEN JsonFail ELSE At(s[i])

\* -?(0|[1-9][0-9]*)(.[0-9]+)?
JsonNumber(s, i) ==
  LET Checked(ip, dot, fp, i3) ==
        IF \/ ip = <<>>
           \/ (Len(ip) > 1 /\ Head(ip) = "0")
           \/ (dot /\ fp = <<>>)
           \/ (i3 <= Len(s) /\ s[i3] \in {"e", "E"})
          THEN JsonFail
          ELSE JsonAt(Num(parseFloat(SubSeq(s, i, i3 - 1))), i3)
      AfterFraction(ip, i2, dot, fp) ==
        Checked(ip, dot, fp, IF dot THEN i2 + 1 + Len(fp) ELSE i2)
      AfterDot(ip, i2, dot) ==
        AfterFraction(ip, i2, dot,
                      IF dot THEN TakeWhile(From(s, i2 + 1), IsDigit) ELSE <<>>)
      AfterInt(ip, i2) == AfterDot(ip, i2, i2 <= Len(s) /\ s[i2] = ".")
      AfterSign(i1, ip) == AfterInt(ip, i1 + Len(ip))
      At(i1) == AfterSign(i1, TakeWhile(From(s, i1), IsDigit))
  IN At(IF i <= Len(s) /\ s[i] = "-" THEN i + 1 ELSE i)

RECURSIVE JsonValue(_, _)
RECURSIVE JsonMembers(_, _, _)
RECURSIVE JsonItems(_, _, _)
JsonValue(s, i0) ==
  LET String(str) == IF str.ok THEN JsonAt(Str(str.v), str.next) ELSE JsonFail
      Object(j) ==
        IF j <= Len(s) /\ s[j] = "}" THEN JsonAt(Obj(<<>>), j + 1)
        ELSE JsonMembers(s, j, <<>>)
      Array(j) ==
        IF j <= Len(s) /\ s[j] = "]" THEN JsonAt(Arr(<<>>), j + 1)
        ELSE JsonItems(s, j, <<>>)
      At(i) ==
        IF i > Len(s) THEN JsonFail
        ELSE IF StartsWithAt(s, <<"t", "r", "u", "e">>, i) THEN JsonAt(Bool(TRUE), i + 4)
        ELSE IF StartsWithAt(s, <<"f", "a", "l", "s", "e">>, i) THEN JsonAt(Bool(FALSE), i + 5)
        ELSE IF StartsWithAt(s, <<"n", "u", "l", "l">>, i) THEN JsonAt(Null, i + 4)
        ELSE IF s[i] = "\"" THEN String(JsonChars(s, i + 1))
        ELSE IF s[i] = "{" THEN Object(SkipWs(s, i + 1))
        ELSE IF s[i] = "[" THEN Array(SkipWs(s, i + 1))
        ELSE JsonNumber(s, i)
  IN At(SkipWs(s, i0))

\* "key" : value, then a comma and more members, or the closing brace
JsonMembers(s, i0, entries) ==
  LET Closing(e, set) ==
        IF e > Len(s) THEN JsonFail
        ELSE IF s[e] = "}" THEN JsonAt(Obj(set), e + 1)
        ELSE IF s[e] = "," THEN JsonMembers(s, e + 1, set)
        ELSE JsonFail
      AfterValue(key, val) ==
        IF ~val.ok THEN JsonFail
        ELSE Closing(SkipWs(s, val.next), Set(entries, key.v, val.v))
      Colon(key, c) ==
        AfterValue(key, IF c <= Len(s) /\ s[c] = ":" THEN JsonValue(s, c + 1)
                        ELSE JsonFail)
      AfterKey(key) ==
        IF key.ok THEN Colon(key, SkipWs(s, key.next)) ELSE JsonFail
      At(i) ==
        AfterKey(IF i <= Len(s) /\ s[i] = "\"" THEN JsonChars(s, i + 1) ELSE JsonFail)
  IN At(SkipWs(s, i0))

JsonItems(s, i0, items) ==
  LET Closing(e, all) ==
        IF e > Len(s) THEN JsonFail
        ELSE IF s[e] = "]" THEN JsonAt(Arr(all), e + 1)
        ELSE IF s[e] = "," THEN JsonItems(s, e + 1, all)
        ELSE JsonFail
      AfterValue(val) ==
        IF ~val.ok THEN JsonFail
        ELSE Closing(SkipWs(s, val.next), Append(items, val.v))
  IN AfterValue(JsonValue(s, i0))

\* try { JSON.parse(value) } catch { undefined }
JSONparseOrUndefined(value) ==
  LET Of(parsed) ==
        IF parsed.ok /\ SkipWs(value, parsed.next) > Len(value) THEN parsed.v
        ELSE Undef
  IN Of(JsonValue(value, 1))

\* try { JSON.parse(value) } catch { value }
JSONparseOrRaw(value) ==
  LET Of(parsed) ==
        IF parsed.ok /\ SkipWs(value, parsed.next) > Len(value) THEN parsed.v
        ELSE Str(value)
  IN Of(JsonValue(value, 1))

-----------------------------------------------------------------------------
(* elementorParser.ts: the page parser *)

\* a DOM element: its tag name, its attributes in document order (name and raw
\* value), the markup inside it and its child elements
DomElement(tagName, attributes, innerHTML, children) ==
  [tagName |-> tagName, attributes |-> attributes, innerHTML |-> innerHTML,
   children |-> children]

\* el.getAttribute(name) || ''
AttributeOf(el, name) ==
  IF Has(el.attributes, name) THEN Get(el.attributes, name) ELSE <<>>

\* Array.from(el.classList): the distinct class tokens, in order
ClassList(el) ==
  LET Of(value) == IF value = <<>> THEN <<>> ELSE AddAll(<<>>, SplitWs(value))
  IN Of(trim(AttributeOf(el, <<"c", "l", "a", "s", "s">>)))

\* the number of elements of a subtree, itself included
RECURSIVE DomSize(_)
RECURSIVE DomSizeAll(_)
DomSize(el) == 1 + DomSizeAll(el.children)
DomSizeAll(els) == IF els = <<>> THEN 0 ELSE DomSize(Head(els)) + DomSizeAll(Tail(els))

\* type from the marker classes with the column marker tested first
ResolveTypeColumnFirst(classes) ==
  LET Widget(widget) ==
        IF Contains(classes, <<"e", "l", "e", "m", "e", "n", "t", "o", "r", "-", "w", "i", "d", "g", "e", "t">>) /\ widget # <<>>
          THEN replace(Head(widget), <<"e", "l", "e", "m", "e", "n", "t", "o", "r", "-", "w", "i", "d", "g", "e", "t", "-">>, <<>>)
          ELSE <<"w", "i", "d", "g", "e", "t">>
  IN IF Contains(classes, <<"e", "l", "e", "m", "e", "n", "t", "o", "r", "-", "c", "o", "l", "u", "m", "n">>) THEN <<"c", "o", "l", "u", "m", "n">>
     ELSE IF Contains(classes, <<"e", "l", "e", "m", "e", "n", "t", "o", "r", "-", "s", "e", "c", "t", "i", "o", "n">>) THEN <<"s", "e", "c", "t", "i", "o", "n">>
     ELSE Widget(SelectSeq(classes, LAMBDA cls : startsWith(cls, <<"e", "l", "e", "m", "e", "n", "t", "o", "r", "-", "w", "i", "d", "g", "e", "t", "-">>)))

\* type from the marker classes: section, then column, then the widget class
ResolveType(classes) ==
  LET Widget(widget) ==
        IF Contains(classes, <<"e", "l", "e", "m", "e", "n", "t", "o", "r", "-", "w", "i", "d", "g", "e", "t">>) /\ widget # <<>>
          THEN replace(Head(widget), <<"e", "l", "e", "m", "e", "n", "t", "o", "r", "-", "w", "i", "d", "g", "e", "t", "-">>, <<>>)
          ELSE <<"w", "i", "d", "g", "e", "t">>
  IN IF Contains(classes, <<"e", "l", "e", "m", "e", "n", "t", "o", "r", "-", "s", "e", "c", "t", "i", "o", "n">>) THEN <<"s", "e", "c", "t", "i", "o", "n">>
     ELSE IF Contains(classes, <<"e", "l", "e", "m", "e", "n", "t", "o", "r", "-", "c", "o", "l", "u", "m", "n">>) THEN <<"c", "o", "l", "u", "m", "n">>
     ELSE Widget(SelectSeq(classes, LAMBDA cls : startsWith(cls, <<"e", "l", "e", "m", "e", "n", "t", "o", "r", "-", "w", "i", "d", "g", "e", "t", "-">>)))

\* settings[key] = JSON.parse(value), or the raw value, for each data- attribute
RECURSIVE ParseSettings(_, _)
ParseSettings(attributes, settings) ==
  LET With(attr) ==
        IF startsWith(attr.k, <<"d", "a", "t", "a", "-">>)
          THEN Set(settings, replace(attr.k, <<"d", "a", "t", "a", "-">>, <<>>), JSONparseOrRaw(attr.v))
          ELSE settings
  IN IF attributes = <<>> THEN settings
     ELSE ParseSettings(Tail(attributes), With(Head(attributes)))

\* styles[property] = value for each ';' segment, split at every ':'
RECURSIVE ParseStyles(_, _)
ParseStyles(segments, styles) ==
  LET Declared(property, value) ==
        IF property # <<>> /\ value # <<>>
          THEN Set(styles, property, Str(value)) ELSE styles
      With(parts) ==
        Declared(trim(parts[1]), IF Len(parts) >= 2 THEN trim(parts[2]) ELSE <<>>)
  IN IF segments = <<>> THEN styles
     ELSE ParseStyles(Tail(segments), With(split(Head(segments), ":")))

InlineStyles(el) ==
  LET Of(styleAttr) ==
        IF styleAttr = <<>> THEN <<>> ELSE ParseStyles(split(styleAttr, ";"), <<>>)
  IN Of(AttributeOf(el, <<"s", "t", "y", "l", "e">>))

OtherAttributes(el) ==
  LET Entries(kept) == [i \in DOMAIN kept |-> E(kept[i].k, Str(kept[i].v))]
  IN Entries(SelectSeq(el.attributes, LAMBDA attr :
               /\ ~startsWith(attr.k, <<"d", "a", "t", "a", "-">>)
               /\ attr.k \notin {<<"s", "t", "y", "l", "e">>, <<"c", "l", "a", "s", "s">>, <<"i", "d">>}))

\* el.id || 'elementor-' + a random suffix; draw is the suffix Math.random gives
ElementId(el, draw) ==
  LET Of(id) == IF id # <<>> THEN id ELSE <<"e", "l", "e", "m", "e", "n", "t", "o", "r", "-">> \o draw
  IN Of(AttributeOf(el, <<"i", "d">>))

\* content = el.innerHTML for every type
ContentOfAnyType(el, type) == Str(el.innerHTML)

\* content = el.innerHTML when the type includes 'text' or 'heading'
ContentOf(el, type) ==
  IF includes(type, <<"t", "e", "x", "t">>) \/ includes(type, <<"h", "e", "a", "d", "i", "n", "g">>)
    THEN Str(el.innerHTML) ELSE Undef

RECURSIVE parseElementorElements(_, _, _)
RECURSIVE ParseChildren(_, _, _)
\* draws[n] is the random suffix drawn at the n-th element of the document
parseElementorElements(element, draws, visited) ==
  ParseChildren(element.children, draws, visited)

\* element.querySelectorAll(':scope > .elementor-element').forEach
ParseChildren(els, draws, visited) ==
  LET Parsed(el, classes, type) ==
        ElementorElement(
          ElementId(el, draws[visited + 1]), type,
          MapChars(el.tagName, toLowerCase),
          ParseSettings(el.attributes, <<>>),
          parseElementorElements(el, draws, visited + 1),
          classes, InlineStyles(el),
          ContentOf(el, type),
          OtherAttributes(el))
      Matching(el, classes) ==
        IF Contains(classes, <<"e", "l", "e", "m", "e", "n", "t", "o", "r", "-", "e", "l", "e", "m", "e", "n", "t">>)
          THEN <<Parsed(el, classes, ResolveType(classes))>> ELSE <<>>
      First(el) == Matching(el, ClassList(el))
  IN IF els = <<>> THEN <<>>
     ELSE First(Head(els))
            \o ParseChildren(Tail(els), draws, visited + DomSize(Head(els)))

\* document.querySelector('.elementor'): the first match in document order
RECURSIVE QueryElementor(_)
QueryElementor(els) ==
  LET Inside(inside) == IF inside # <<>> THEN inside ELSE QueryElementor(Tail(els))
  IN IF els = <<>> THEN <<>>
     ELSE IF Contains(ClassList(Head(els)), <<"e", "l", "e", "m", "e", "n", "t", "o", "r">>) THEN <<Head(els)>>
     ELSE Inside(QueryElementor(Head(els).children))

\* document.querySelectorAll('style'), kept when the text includes 'elementor'
extractGlobalStyles(document) ==
  LET Entries(kept) ==
        [i \in DOMAIN kept |-> E(<<"s", "t", "y", "l", "e", "_">> \o NatToStr(i - 1), Str(kept[i]))]
  IN Entries(SelectSeq(document.styles, LAMBDA css : includes(css, <<"e", "l", "e", "m", "e", "n", "t", "o", "r">>)))

\* a page as JSDOM reads it: the title, the text of its style elements, the body
Document(title, styles, body) == [title |-> title, styles |-> styles, body |-> body]

NoElementorContent == <<"N", "o", " ", "E", "l", "e", "m", "e", "n", "t", "o", "r", " ", "c", "o", "n", "t", "e", "n", "t", " ", "f", "o", "u", "n", "d", " ", "o", "n", " ", "t", "h", "e", " ", "p", "a", "g", "e">>

\* what fetch(url) settles to: the document of the page, or a rejection with
\* the message the platform gives its network error
Fetched(document) == [t |-> "document", v |-> document]
FetchRejected(message) == [t |-> "error", message |-> message]

\* a parse that goes on without the container check: a page with no elements
ParseWithoutContainerCheck(response, draws) ==
  LET Page(document, container) ==
        [rejected |-> FALSE,
         title |-> IF document.title # <<>> THEN document.title
                   ELSE <<"U", "n", "t", "i", "t", "l", "e", "d", " ", "P", "a", "g", "e">>,
         elements |-> IF container = <<>> THEN <<>>
                      ELSE parseElementorElements(container[1], draws, 0),
         globalStyles |-> extractGlobalStyles(document)]
  IN IF response.t = "error"
       THEN [rejected |-> TRUE, message |-> response.message]
       ELSE Page(response.v, QueryElementor(response.v.body))

\* the promise of parseElementorPage: resolved with a page, or rejected with
\* the error that was thrown
parseElementorPage(response, draws) ==
  LET Page(document, container) ==
        IF container = <<>>
          THEN [rejected |-> TRUE, message |-> NoElementorContent]
          ELSE [rejected |-> FALSE,
                title |-> IF document.title # <<>> THEN document.title
                          ELSE <<"U", "n", "t", "i", "t", "l", "e", "d", " ", "P", "a", "g", "e">>,
                elements |-> parseElementorElements(container[1], draws, 0),
                globalStyles |-> extractGlobalStyles(document)]
  IN IF response.t = "error"
       THEN [rejected |-> TRUE, message |-> response.message]
       ELSE Page(response.v, QueryElementor(response.v.body))

-----------------------------------------------------------------------------
(* ElementorConverter: the presentation shell *)

\* sonner's toast.error(message) and toast.success(message)
ToastError(message) == [kind |-> "error", message |-> message]
ToastSuccess(message) == [kind |-> "success", message |-> message]

\* every element of a parsed tree, at every depth, in document order
RECURSIVE AllElements(_)
AllElements(elements) ==
  IF elements = <<>> THEN <<>>
  ELSE <<Head(elements)>> \o AllElements(Head(elements).children)
       \o AllElements(Tail(elements))

\* findElement(elements, id): the first element with the id, depth first
findElement(elements, id) ==
  LET First(found) == IF found = <<>> THEN Undef ELSE Head(found)
  IN First(SelectSeq(AllElements(elements), LAMBDA element : element.id = id))

\* the component as it mounts
ShellInit ==
  /\ url = <<>>
  /\ loading = FALSE
  /\ error = Null
  /\ parsedData = Null
  /\ generatedCode = <<>>
  /\ selectedElement = Null
  /\ activeTab = "elements"
  /\ toast = Null
  /\ clipboard = <<>>
  /\ inflight = 0

Init ==
  /\ ShellInit
  /\ arg = Null
  /\ res = Null
  /\ pc = "shell"

\* the URL input is disabled while loading
handleUrlChange(value) ==
  /\ ~loading
  /\ url' = value
  /\ error' = Null
  /\ UNCHANGED <<loading, parsedData, generatedCode, selectedElement, activeTab,
                 toast, clipboard, inflight, harnessVars>>

\* the Fetch button with an empty URL: only the notification
handleFetchNoUrl ==
  /\ ~loading
  /\ url = <<>>
  /\ toast' = ToastError(<<"P", "l", "e", "a", "s", "e", " ", "e", "n", "t", "e", "r", " ", "a", " ", "v", "a", "l", "i", "d", " ", "U", "R", "L">>)
  /\ UNCHANGED <<url, loading, error, parsedData, generatedCode, selectedElement,
                 activeTab, clipboard, inflight, harnessVars>>

\* handleFetch that keeps the page, the code and the selection it holds
handleFetchKeepingPage ==
  /\ ~loading
  /\ url # <<>>
  /\ loading' = TRUE
  /\ error' = Null
  /\ inflight' = inflight + 1
  /\ UNCHANGED <<url, parsedData, generatedCode, selectedElement, activeTab,
                 toast, clipboard, harnessVars>>

\* the Fetch button, up to the await: the button is disabled while loading
handleFetch ==
  /\ ~loading
  /\ url # <<>>
  /\ loading' = TRUE
  /\ parsedData' = Null
  /\ generatedCode' = <<>>
  /\ error' = Null
  /\ selectedElement' = Null
  /\ inflight' = inflight + 1
  /\ UNCHANGED <<url, activeTab, toast, clipboard, harnessVars>>

\* handleFetch after the await with setLoading(false) at the end of the try
\* block only: a failure leaves loading set
handleFetchSettledWithoutFinally(response, draws) ==
  LET Settled(data) ==
        IF data.rejected
          THEN /\ error' = Str(data.message)
               /\ toast' = ToastError(data.message)
               /\ UNCHANGED <<parsedData, activeTab, loading>>
          ELSE /\ parsedData' = [title |-> data.title,
                                 elementCount |-> Len(data.elements),
                                 elements |-> data.elements]
               /\ toast' = ToastSuccess(<<"P", "a", "g", "e", " ", "p", "a", "r", "s", "e", "d", " ", "s", "u", "c", "c", "e", "s", "s", "f", "u", "l", "l", "y">>)
               /\ activeTab' = "elements"
               /\ loading' = FALSE
               /\ UNCHANGED error
  IN /\ inflight > 0
     /\ inflight' = inflight - 1
     /\ Settled(parseElementorPage(response, draws))
     /\ UNCHANGED <<url, generatedCode, selectedElement, clipboard, harnessVars>>

\* handleFetch after the await: the try, catch and finally blocks
handleFetchSettled(response, draws) ==
  LET Settled(data) ==
        IF data.rejected
          THEN /\ error' = Str(data.message)
               /\ toast' = ToastError(data.message)
               /\ UNCHANGED <<parsedData, activeTab>>
          ELSE /\ parsedData' = [title |-> data.title,
                                 elementCount |-> Len(data.elements),
                                 elements |-> data.elements]
               /\ toast' = ToastSuccess(<<"P", "a", "g", "e", " ", "p", "a", "r", "s", "e", "d", " ", "s", "u", "c", "c", "e", "s", "s", "f", "u", "l", "l", "y">>)
               /\ activeTab' = "elements"
               /\ UNCHANGED error
  IN /\ inflight > 0
     /\ inflight' = inflight - 1
     /\ loading' = FALSE
     /\ Settled(parseElementorPage(response, draws))
     /\ UNCHANGED <<url, generatedCode, selectedElement, clipboard, harnessVars>>

\* generateComponent(element) with the code and the selection reset in the
\* catch block
generateComponentClearingOnFailure(element) ==
  LET Failed ==
        /\ toast' = ToastError(<<"F", "a", "i", "l", "e", "d", " ", "t", "o", " ", "g", "e", "n", "e", "r", "a", "t", "e", " ", "c", "o", "m", "p", "o", "n", "e", "n", "t">>)
        /\ generatedCode' = <<>>
        /\ selectedElement' = Null
        /\ UNCHANGED <<url, loading, error, parsedData, activeTab, clipboard,
                       inflight, harnessVars>>
      Generated(code) ==
        IF code.threw THEN Failed
        ELSE /\ generatedCode' = code.text
             /\ selectedElement' = Str(element.id)
             /\ activeTab' = "code"
             /\ toast' = ToastSuccess(<<"C", "o", "m", "p", "o", "n", "e", "n", "t", " ", "g", "e", "n", "e", "r", "a", "t", "e", "d", " ", "s", "u", "c", "c", "e", "s", "s", "f", "u", "l", "l", "y">>)
             /\ UNCHANGED <<url, loading, error, parsedData, clipboard, inflight,
                            harnessVars>>
  IN IF element = Undef THEN Failed
     ELSE Generated(generateReactBricksComponent(
                      mapElementorToReactBricks(element, Undef), DefaultImports(<<>>)))

\* generateComponent(element): map, generate, then the three setters; a raise
\* anywhere in the try block leaves only the error notification.  An undefined
\* element makes the mapper raise on its first property read.
generateComponent(element) ==
  LET Failed ==
        /\ toast' = ToastError(<<"F", "a", "i", "l", "e", "d", " ", "t", "o", " ", "g", "e", "n", "e", "r", "a", "t", "e", " ", "c", "o", "m", "p", "o", "n", "e", "n", "t">>)
        /\ UNCHANGED <<url, loading, error, parsedData, generatedCode,
                       selectedElement, activeTab, clipboard, inflight,
                       harnessVars>>
      Generated(code) ==
        IF code.threw THEN Failed
        ELSE /\ generatedCode' = code.text
             /\ selectedElement' = Str(element.id)
             /\ activeTab' = "code"
             /\ toast' = ToastSuccess(<<"C", "o", "m", "p", "o", "n", "e", "n", "t", " ", "g", "e", "n", "e", "r", "a", "t", "e", "d", " ", "s", "u", "c", "c", "e", "s", "s", "f", "u", "l", "l", "y">>)
             /\ UNCHANGED <<url, loading, error, parsedData, clipboard, inflight,
                            harnessVars>>
  IN IF element = Undef THEN Failed
     ELSE Generated(generateReactBricksComponent(
                      mapElementorToReactBricks(element, Undef), DefaultImports(<<>>)))

\* a button of the element tree, rendered while a page is held
ClickElement ==
  /\ parsedData # Null
  /\ \E element \in Range(AllElements(parsedData.elements)) : generateComponent(element)

\* the Generate Code button of the details tab
ClickGenerateCode ==
  /\ parsedData # Null
  /\ selectedElement # Null
  /\ activeTab = "elements"
  /\ generateComponent(findElement(parsedData.elements, selectedElement.v))

\* the tab triggers, rendered while a page is held
setActiveTab(tab) ==
  /\ parsedData # Null
  /\ activeTab' = tab
  /\ UNCHANGED <<url, loading, error, parsedData, generatedCode, selectedElement,
                 toast, clipboard, inflight, harnessVars>>

\* the Copy buttons, rendered while a page and generated code are held
copyCode ==
  /\ parsedData # Null
  /\ generatedCode # <<>>
  /\ clipboard' = generatedCode
  /\ toast' = ToastSuccess(<<"C", "o", "d", "e", " ", "c", "o", "p", "i", "e", "d", " ", "t", "o", " ", "c", "l", "i", "p", "b", "o", "a", "r", "d">>)
  /\ UNCHANGED <<url, loading, error, parsedData, generatedCode, selectedElement,
                 activeTab, inflight, harnessVars>>

-----------------------------------------------------------------------------
(* Bounded inputs *)

\* an ordered tree of labels
Tree(label, children) == [label |-> label, children |-> children]

RECURSIVE TreesOfSize(_, _)
RECURSIVE ForestsOfSize(_, _)
\* the trees with exactly n nodes
TreesOfSize(labels, n) ==
  { Tree(label, forest) : label \in labels, forest \in ForestsOfSize(labels, n - 1) }

\* the sequences of trees with n nodes in all
ForestsOfSize(labels, n) ==
  IF n = 0 THEN {<<>>}
  ELSE UNION { { <<tree>> \o forest : tree \in TreesOfSize(labels, k),
                                      forest \in ForestsOfSize(labels, n - k) }
               : k \in 1..n }

TreesUpTo(labels, n) == UNION { TreesOfSize(labels, k) : k \in 1..n }
ForestsUpTo(labels, n) == UNION { ForestsOfSize(labels, k) : k \in 0..n }

\* the node label of an Element: everything but its id and its children
ElementLabel(type, tag, settings, classes, styles, content) ==
  [type |-> type, tag |-> tag, settings |-> settings, classes |-> classes,
   styles |-> styles, content |-> content]

\* the Element tree of a label tree; ids follow the position in the tree
RECURSIVE ToElement(_, _)
ToElement(tree, id) ==
  ElementorElement(id, tree.label.type, tree.label.tag, tree.label.settings,
    [i \in DOMAIN tree.children |->
       ToElement(tree.children[i], id \o <<"-">> \o NatToStr(i))],
    tree.label.classes, tree.label.styles, tree.label.content, <<>>)

\* the DOM element of a label tree; the label is the element without children
RECURSIVE ToDom(_)
ToDom(tree) ==
  DomElement(tree.label.tagName, tree.label.attributes, tree.label.innerHTML,
    [i \in DOMAIN tree.children |-> ToDom(tree.children[i])])

DomLabel(tagName, attributes, innerHTML) ==
  [tagName |-> tagName, attributes |-> attributes, innerHTML |-> innerHTML]

MaxPageNodes == 2

\* the nodes a page of the shell is drawn from
PageLabels ==
  { DomLabel(<<"D", "I", "V">>, <<E(<<"c", "l", "a", "s", "s">>, <<"e", "l", "e", "m", "e", "n", "t", "o", "r", " ", "e", "l", "e", "m", "e", "n", "t", "o", "r", "-", "1", "2">>)>>, <<>>),
    DomLabel(<<"S", "E", "C", "T", "I", "O", "N">>,
      <<E(<<"c", "l", "a", "s", "s">>, <<"e", "l", "e", "m", "e", "n", "t", "o", "r", "-", "e", "l", "e", "m", "e", "n", "t", " ", "e", "l", "e", "m", "e", "n", "t", "o", "r", "-", "s", "e", "c", "t", "i", "o", "n">>),
        E(<<"i", "d">>, <<"s", "1">>)>>, <<>>),
    DomLabel(<<"D", "I", "V">>,
      <<E(<<"c", "l", "a", "s", "s">>, <<"e", "l", "e", "m", "e", "n", "t", "o", "r", "-", "e", "l", "e", "m", "e", "n", "t", " ", "e", "l", "e", "m", "e", "n", "t", "o", "r", "-", "w", "i", "d", "g", "e", "t", " ", "e", "l", "e", "m", "e", "n", "t", "o", "r", "-", "w", "i", "d", "g", "e", "t", "-", "h", "e", "a", "d", "i", "n", "g">>),
        E(<<"d", "a", "t", "a", "-", "i", "d">>, <<"7">>)>>, <<"<", "h", "2", ">", "H", "i", "<", "/", "h", "2", ">">>),
    DomLabel(<<"D", "I", "V">>,
      <<E(<<"c", "l", "a", "s", "s">>, <<"e", "l", "e", "m", "e", "n", "t", "o", "r", "-", "e", "l", "e", "m", "e", "n", "t", " ", "e", "l", "e", "m", "e", "n", "t", "o", "r", "-", "w", "i", "d", "g", "e", "t", " ", "e", "l", "e", "m", "e", "n", "t", "o", "r", "-", "w", "i", "d", "g", "e", "t", "-", "t", "e", "x", "t", "-", "e", "d", "i", "t", "o", "r">>),
        E(<<"i", "d">>, <<"t", "1">>), E(<<"s", "t", "y", "l", "e">>, <<"t", "e", "x", "t", "-", "a", "l", "i", "g", "n", ":", " ", "c", "e", "n", "t", "e", "r">>)>>, <<"<", "p", ">", "T", "<", "/", "p", ">">>) }

\* a page whose root holds a heading followed by a text
TwoWidgetPage ==
  Document(<<"H", "o", "m", "e">>, <<>>,
    <<DomElement(<<"D", "I", "V">>, <<E(<<"c", "l", "a", "s", "s">>, <<"e", "l", "e", "m", "e", "n", "t", "o", "r", " ", "e", "l", "e", "m", "e", "n", "t", "o", "r", "-", "1", "2">>)>>, <<>>,
        <<DomElement(<<"D", "I", "V">>,
            <<E(<<"c", "l", "a", "s", "s">>, <<"e", "l", "e", "m", "e", "n", "t", "o", "r", "-", "e", "l", "e", "m", "e", "n", "t", " ", "e", "l", "e", "m", "e", "n", "t", "o", "r", "-", "w", "i", "d", "g", "e", "t", " ", "e", "l", "e", "m", "e", "n", "t", "o", "r", "-", "w", "i", "d", "g", "e", "t", "-", "h", "e", "a", "d", "i", "n", "g">>),
              E(<<"i", "d">>, <<"h", "1">>)>>, <<"<", "h", "2", ">", "H", "i", "<", "/", "h", "2", ">">>, <<>>),
          DomElement(<<"D", "I", "V">>,
            <<E(<<"c", "l", "a", "s", "s">>, <<"e", "l", "e", "m", "e", "n", "t", "o", "r", "-", "e", "l", "e", "m", "e", "n", "t", " ", "e", "l", "e", "m", "e", "n", "t", "o", "r", "-", "w", "i", "d", "g", "e", "t", " ", "e", "l", "e", "m", "e", "n", "t", "o", "r", "-", "w", "i", "d", "g", "e", "t", "-", "t", "e", "x", "t", "-", "e", "d", "i", "t", "o", "r">>),
              E(<<"i", "d">>, <<"t", "1">>)>>, <<"<", "p", ">", "T", "<", "/", "p", ">">>, <<>>)>>)>>)

Pages ==
  { Document(<<"H", "o", "m", "e">>, <<>>, [i \in DOMAIN forest |-> ToDom(forest[i])]) :
      forest \in ForestsUpTo(PageLabels, MaxPageNodes) }
    \cup { TwoWidgetPage }

\* the messages browsers give the TypeError of a failed fetch
NetworkMessages ==
  { <<"F", "a", "i", "l", "e", "d", " ", "t", "o", " ", "f", "e", "t", "c", "h">>, <<"L", "o", "a", "d", " ", "f", "a", "i", "l", "e", "d">>,
    <<"N", "e", "t", "w", "o", "r", "k", "E", "r", "r", "o", "r", " ", "w", "h", "e", "n", " ", "a", "t", "t", "e", "m", "p", "t", "i", "n", "g", " ", "t", "o", " ", "f", "e", "t", "c", "h", " ", "r", "e", "s", "o", "u", "r", "c", "e", ".">> }

Responses ==
  { Fetched(page) : page \in Pages } \cup
  { FetchRejected(message) : message \in NetworkMessages }

\* the suffixes Math.random().toString(36).substr(2, 9) is taken to give
RandomSuffixes == { <<"k", "3", "j", "9", "x", "0", "q", "2", "a">>, <<"z", "8", "1", "m", "f", "p", "0", "4", "c">> }

Draws(n) == [1..n -> RandomSuffixes]

Urls == { <<>>, <<"h", "t", "t", "p", "s", ":", "/", "/", "e", "x", "a", "m", "p", "l", "e", ".", "c", "o", "m", "/", "e", "l", "e", "m", "e", "n", "t", "o", "r", "-", "p", "a", "g", "e">> }

Next ==
  \/ \E value \in Urls : handleUrlChange(value)
  \/ handleFetchNoUrl
  \/ handleFetch
  \/ \E response \in Responses, draws \in Draws(MaxPageNodes) :
       handleFetchSettled(response, draws)
  \/ ClickElement
  \/ ClickGenerateCode
  \/ \E tab \in {"elements", "code"} : setActiveTab(tab)
  \/ copyCode

\* the promise handleFetch awaits does not stay pending: at the latest the
\* network gives the request up and the promise is rejected
FetchSettles ==
  \E message \in NetworkMessages, draws \in Draws(MaxPageNodes) :
    handleFetchSettled(FetchRejected(message), draws)

\* the shell with no awaited fetch pending for ever
SpecFair == Init /\ [][Next]_vars /\ WF_vars(FetchSettles)

Spec == Init /\ [][Next]_vars

-----------------------------------------------------------------------------
(* The mapper and the generator applied to one Element: the Element is
   mapped, code is generated for the description, code is generated for
   other descriptions, and code is generated for the first one again. *)

MaxTreeNodes == 3
MaxOtherCalls == 1

WidgetClasses(type) ==
  <<<<"e", "l", "e", "m", "e", "n", "t", "o", "r", "-", "e", "l", "e", "m", "e", "n", "t">>, <<"e", "l", "e", "m", "e", "n", "t", "o", "r", "-", "w", "i", "d", "g", "e", "t">>, <<"e", "l", "e", "m", "e", "n", "t", "o", "r", "-", "w", "i", "d", "g", "e", "t", "-">> \o type>>

\* the nodes the Element trees are built from
TreeLabels ==
  { ElementLabel(<<"s", "e", "c", "t", "i", "o", "n">>, <<"s", "e", "c", "t", "i", "o", "n">>, <<>>,
                 <<<<"e", "l", "e", "m", "e", "n", "t", "o", "r", "-", "e", "l", "e", "m", "e", "n", "t">>, <<"e", "l", "e", "m", "e", "n", "t", "o", "r", "-", "s", "e", "c", "t", "i", "o", "n">>>>, <<>>, Undef),
    ElementLabel(<<"c", "o", "l", "u", "m", "n">>, <<"d", "i", "v">>, <<E(<<"_", "c", "o", "l", "u", "m", "n", "_", "s", "i", "z", "e">>, Num(Number(50000)))>>,
                 <<<<"e", "l", "e", "m", "e", "n", "t", "o", "r", "-", "e", "l", "e", "m", "e", "n", "t">>, <<"e", "l", "e", "m", "e", "n", "t", "o", "r", "-", "c", "o", "l", "u", "m", "n">>>>, <<>>, Undef),
    ElementLabel(<<"h", "e", "a", "d", "i", "n", "g">>, <<"h", "2">>, <<>>, WidgetClasses(<<"h", "e", "a", "d", "i", "n", "g">>),
                 <<E(<<"f", "o", "n", "t", "S", "i", "z", "e">>, Str(<<"2", "4", "p", "x">>))>>, Str(<<"<", "h", "2", ">", "H", "i", "<", "/", "h", "2", ">">>)) }

TreeElements ==
  { ToElement(tree, <<"e">>) : tree \in TreesUpTo(TreeLabels, MaxTreeNodes) }

\* _column_size values in thousandths, at and around the thresholds
ColumnSizes ==
  { 0, 1, 12500, 25000, 25001, 33330, 33331, 50000, 50001, 66660, 66661,
    75000, 75001, 90000, 100000 }

ColumnElement(size) ==
  ElementorElement(<<"c">>, <<"c", "o", "l", "u", "m", "n">>, <<"d", "i", "v">>,
    <<E(<<"_", "c", "o", "l", "u", "m", "n", "_", "s", "i", "z", "e">>, Num(Number(size)))>>, <<>>,
    <<<<"e", "l", "e", "m", "e", "n", "t", "o", "r", "-", "e", "l", "e", "m", "e", "n", "t">>, <<"e", "l", "e", "m", "e", "n", "t", "o", "r", "-", "c", "o", "l", "u", "m", "n">>>>, <<>>, Undef, <<>>)

ColumnElements == { ColumnElement(size) : size \in ColumnSizes }

LinkMarker == <<"e", "l", "e", "m", "e", "n", "t", "o", "r", "-", "b", "u", "t", "t", "o", "n", "-", "l", "i", "n", "k">>
OutlineMarker == <<"e", "l", "e", "m", "e", "n", "t", "o", "r", "-", "b", "u", "t", "t", "o", "n", "-", "o", "u", "t", "l", "i", "n", "e">>

\* the marker classes of a button, in each order they can be written
ButtonMarkers ==
  LET markers == {LinkMarker, OutlineMarker, <<"e", "l", "e", "m", "e", "n", "t", "o", "r", "-", "s", "i", "z", "e", "-", "l", "g">>}
  IN { order \in UNION { [1..n -> markers] : n \in 0..3 } :
         \A i, j \in DOMAIN order : i # j => order[i] # order[j] }

ButtonContents ==
  { Undef, Str(<<"<", "a", " ", "h", "r", "e", "f", "=", "\"", "/", "g", "o", "\"", " ", "c", "l", "a", "s", "s", "=", "\"", "e", "l", "e", "m", "e", "n", "t", "o", "r", "-", "b", "u", "t", "t", "o", "n", "\"", ">", "B", "u", "y", "<", "/", "a", ">">>) }

ButtonElements ==
  { ElementorElement(<<"b">>, <<"b", "u", "t", "t", "o", "n">>, <<"d", "i", "v">>, <<>>, <<>>,
      WidgetClasses(<<"b", "u", "t", "t", "o", "n">>) \o markers, <<>>, content, <<>>) :
      markers \in ButtonMarkers, content \in ButtonContents }

\* markup of a hosted video, with the src its video tag carries
VideoFiles ==
  { [content |-> <<"<", "v", "i", "d", "e", "o", " ", "s", "r", "c", "=", "\"", "x", ".", "m", "p", "4", "\"", ">", "<", "/", "v", "i", "d", "e", "o", ">">>, src |-> <<"x", ".", "m", "p", "4">>],
    [content |-> <<"<", "v", "i", "d", "e", "o", " ", "c", "o", "n", "t", "r", "o", "l", "s", " ", "s", "r", "c", "=", "'", "m", "e", "d", "i", "a", "/", "c", "l", "i", "p", ".", "w", "e", "b", "m", "'", ">", "<", "/", "v", "i", "d", "e", "o", ">">>,
     src |-> <<"m", "e", "d", "i", "a", "/", "c", "l", "i", "p", ".", "w", "e", "b", "m">>],
    [content |-> <<"<", "v", "i", "d", "e", "o", " ", "s", "r", "c", "=", "\"", "a", ".", "o", "g", "g", "\"", " ", "p", "o", "s", "t", "e", "r", "=", "\"", "p", ".", "p", "n", "g", "\"", ">", "<", "/", "v", "i", "d", "e", "o", ">">>, src |-> <<"a", ".", "o", "g", "g">>],
    [content |-> <<"<", "v", "i", "d", "e", "o", " ", "s", "r", "c", "=", "\"", "v", "i", "m", "e", "o", "-", "c", "l", "i", "p", ".", "m", "p", "4", "\"", ">", "<", "/", "v", "i", "d", "e", "o", ">">>, src |-> <<"v", "i", "m", "e", "o", "-", "c", "l", "i", "p", ".", "m", "p", "4">>],
    [content |-> <<"<", "i", "m", "g", " ", "s", "r", "c", "=", "\"", "p", ".", "p", "n", "g", "\"", ">", "<", "v", "i", "d", "e", "o", " ", "s", "r", "c", "=", "\"", "b", ".", "m", "p", "4", "\"", ">", "<", "/", "v", "i", "d", "e", "o", ">">>, src |-> <<"b", ".", "m", "p", "4">>] }

\* markup of a YouTube embed, with the id its URL carries
VideoEmbeds ==
  { [content |-> <<"<", "i", "f", "r", "a", "m", "e", " ", "s", "r", "c", "=", "\"", "h", "t", "t", "p", "s", ":", "/", "/", "w", "w", "w", ".", "y", "o", "u", "t", "u", "b", "e", ".", "c", "o", "m", "/", "e", "m", "b", "e", "d", "/", "a", "b", "c", "1", "2", "3", "\"", ">", "<", "/", "i", "f", "r", "a", "m", "e", ">">>,
     id |-> <<"a", "b", "c", "1", "2", "3">>],
    [content |-> <<"y", "o", "u", "t", "u", "b", "e", ".", "c", "o", "m", "/", "e", "m", "b", "e", "d", "/", "d", "Q", "w", "4", "?", "r", "e", "l", "=", "0">>, id |-> <<"d", "Q", "w", "4">>] }

VideoContents ==
  { Undef, Str(<<>>),
    Str(<<"<", "i", "f", "r", "a", "m", "e", " ", "s", "r", "c", "=", "\"", "h", "t", "t", "p", "s", ":", "/", "/", "p", "l", "a", "y", "e", "r", ".", "v", "i", "m", "e", "o", ".", "c", "o", "m", "/", "v", "i", "d", "e", "o", "/", "7", "6", "9", "7", "9", "8", "7", "1", "\"", ">", "<", "/", "i", "f", "r", "a", "m", "e", ">">>),
    Str(<<"<", "a", " ", "h", "r", "e", "f", "=", "\"", "h", "t", "t", "p", "s", ":", "/", "/", "w", "w", "w", ".", "y", "o", "u", "t", "u", "b", "e", ".", "c", "o", "m", "/", "w", "a", "t", "c", "h", "?", "v", "=", "a", "b", "c", "1", "2", "3", "\"", ">", "w", "a", "t", "c", "h", "<", "/", "a", ">">>),
    Str(<<"<", "a", " ", "h", "r", "e", "f", "=", "\"", "h", "t", "t", "p", "s", ":", "/", "/", "v", "i", "m", "e", "o", ".", "c", "o", "m", "/", "c", "h", "a", "n", "n", "e", "l", "s", "/", "s", "t", "a", "f", "f", "\"", ">", "s", "t", "a", "f", "f", " ", "p", "i", "c", "k", "s", "<", "/", "a", ">">>),
    Str(<<"<", "v", "i", "d", "e", "o", ">", "<", "s", "o", "u", "r", "c", "e", " ", "s", "r", "c", "=", "\"", "m", ".", "m", "o", "v", "\"", ">", "<", "/", "v", "i", "d", "e", "o", ">">>) }
  \cup { Str(file.content) : file \in VideoFiles }
  \cup { Str(embed.content) : embed \in VideoEmbeds }

VideoSettings ==
  { <<>>, <<E(<<"v", "i", "d", "e", "o", "_", "t", "y", "p", "e">>, Str(<<"h", "o", "s", "t", "e", "d">>))>>,
    <<E(<<"v", "i", "d", "e", "o", "_", "t", "y", "p", "e">>, Str(<<"y", "o", "u", "t", "u", "b", "e">>))>> }

VideoElements ==
  { ElementorElement(<<"v">>, <<"v", "i", "d", "e", "o">>, <<"d", "i", "v">>, settings, <<>>,
      WidgetClasses(<<"v", "i", "d", "e", "o">>), <<>>, content, <<>>) :
      settings \in VideoSettings, content \in VideoContents }

\* markup of a heading or a text, or none
TextContents ==
  { Undef, Str(<<"<", "p", ">", "H", "e", "l", "l", "o", " ", "<", "b", ">", "w", "o", "r", "l", "d", "<", "/", "b", ">", "<", "/", "p", ">">>),
    Str(<<" ", "<", "h", "2", " ", "c", "l", "a", "s", "s", "=", "\"", "e", "l", "e", "m", "e", "n", "t", "o", "r", "-", "h", "e", "a", "d", "i", "n", "g", "-", "t", "i", "t", "l", "e", "\"", ">", "O", "u", "r", " ", "\"", "T", "e", "a", "m", "\"", "<", "/", "h", "2", ">">>) }

TextElements ==
  { ElementorElement(<<"t">>, type, <<"d", "i", "v">>, <<>>, <<>>, WidgetClasses(type), <<>>,
      content, <<>>) :
      type \in {<<"h", "e", "a", "d", "i", "n", "g">>, <<"t", "e", "x", "t", "-", "e", "d", "i", "t", "o", "r">>}, content \in TextContents }

ImageElements ==
  { ElementorElement(<<"i">>, <<"i", "m", "a", "g", "e">>, <<"d", "i", "v">>, <<>>, <<>>, WidgetClasses(<<"i", "m", "a", "g", "e">>),
      <<>>, content, <<>>) :
      content \in {Undef, Str(<<"<", "i", "m", "g", " ", "s", "r", "c", "=", "\"", "a", ".", "p", "n", "g", "\"", " ", "a", "l", "t", "=", "\"", "A", "\"", ">">>)} }

\* the types mapElementorToReactBricks has a case for
PerTypeRules ==
  { <<"s", "e", "c", "t", "i", "o", "n">>, <<"c", "o", "l", "u", "m", "n">>, <<"h", "e", "a", "d", "i", "n", "g">>, <<"t", "e", "x", "t", "-", "e", "d", "i", "t", "o", "r">>, <<"i", "m", "a", "g", "e">>,
    <<"b", "u", "t", "t", "o", "n">>, <<"v", "i", "d", "e", "o">> }

\* types the switch has no case for
OtherTypes ==
  { <<"s", "p", "a", "c", "e", "r">>, <<"i", "c", "o", "n", "-", "l", "i", "s", "t">>, <<"w", "i", "d", "g", "e", "t">>, <<"d", "i", "v", "i", "d", "e", "r">>, <<"f", "o", "r", "m">>,
    <<"w", "i", "d", "g", "e", "t", "-", "c", "o", "u", "n", "t", "e", "r">>, <<"i", "m", "a", "g", "e", "-", "b", "o", "x">>, <<"v", "i", "d", "e", "o", "-", "p", "l", "a", "y", "l", "i", "s", "t">>, <<"t", "e", "x", "t", "-", "p", "a", "t", "h">>,
    <<"b", "u", "t", "t", "o", "n", "-", "g", "r", "o", "u", "p">>, <<"a", "n", "i", "m", "a", "t", "e", "d", "-", "h", "e", "a", "d", "i", "n", "g">>, <<>> }

WidgetElements ==
  { ElementorElement(<<"w">>, type, <<"d", "i", "v">>, <<>>, <<>>, WidgetClasses(type), <<>>,
      content, <<>>) :
      type \in OtherTypes, content \in {Undef, Str(<<"<", "p", ">", "H", "e", "l", "l", "o", "<", "/", "p", ">">>)} }

\* a widget of each family inside a column, and inside a column of a section
NestedElements ==
  LET Leaf(type) ==
        ElementorElement(<<"n", "3">>, type, <<"d", "i", "v">>, <<>>, <<>>, WidgetClasses(type), <<>>,
                         Undef, <<>>)
      Column(children) ==
        ElementorElement(<<"n", "2">>, <<"c", "o", "l", "u", "m", "n">>, <<"d", "i", "v">>, <<>>, children,
                         <<<<"e", "l", "e", "m", "e", "n", "t", "o", "r", "-", "e", "l", "e", "m", "e", "n", "t">>, <<"e", "l", "e", "m", "e", "n", "t", "o", "r", "-", "c", "o", "l", "u", "m", "n">>>>, <<>>, Undef, <<>>)
      Section(children) ==
        ElementorElement(<<"n", "1">>, <<"s", "e", "c", "t", "i", "o", "n">>, <<"s", "e", "c", "t", "i", "o", "n">>, <<>>, children,
                         <<<<"e", "l", "e", "m", "e", "n", "t", "o", "r", "-", "e", "l", "e", "m", "e", "n", "t">>, <<"e", "l", "e", "m", "e", "n", "t", "o", "r", "-", "s", "e", "c", "t", "i", "o", "n">>>>, <<>>, Undef, <<>>)
  IN { Column(<<Leaf(type)>>) : type \in PerTypeRules \ {<<"s", "e", "c", "t", "i", "o", "n">>, <<"c", "o", "l", "u", "m", "n">>} }
       \cup { Section(<<Column(<<Leaf(<<"v", "i", "d", "e", "o">>), Leaf(<<"b", "u", "t", "t", "o", "n">>)>>)>>),
              Column(<<Column(<<Leaf(<<"i", "m", "a", "g", "e">>)>>), Leaf(<<"t", "e", "x", "t", "-", "e", "d", "i", "t", "o", "r">>)>>) }

PipelineElements ==
  TreeElements \cup ColumnElements \cup ButtonElements \cup VideoElements
    \cup WidgetElements \cup TextElements \cup ImageElements \cup NestedElements

\* the descriptions code is generated for between the two calls; res.last and
\* res.previous are the descriptions of the latest call and of the one before
\* it, res.output is the outcome of the latest call
OtherComponents ==
  { mapElementorToReactBricks(element, Undef) :
      element \in
        { ElementorElement(<<"o", "1">>, <<"i", "m", "a", "g", "e">>, <<"d", "i", "v">>, <<>>, <<>>,
            WidgetClasses(<<"i", "m", "a", "g", "e">>), <<>>, Str(<<"<", "i", "m", "g", " ", "s", "r", "c", "=", "\"", "a", ".", "p", "n", "g", "\"", ">">>), <<>>),
          ElementorElement(<<"o", "2">>, <<"t", "e", "x", "t", "-", "e", "d", "i", "t", "o", "r">>, <<"d", "i", "v">>, <<>>, <<>>,
            WidgetClasses(<<"t", "e", "x", "t", "-", "e", "d", "i", "t", "o", "r">>), <<>>, Str(<<"<", "p", ">", "T", "<", "/", "p", ">">>), <<>>),
          ElementorElement(<<"o", "3">>, <<"s", "e", "c", "t", "i", "o", "n">>, <<"s", "e", "c", "t", "i", "o", "n">>, <<>>, <<>>,
            <<<<"e", "l", "e", "m", "e", "n", "t", "o", "r", "-", "e", "l", "e", "m", "e", "n", "t">>, <<"e", "l", "e", "m", "e", "n", "t", "o", "r", "-", "s", "e", "c", "t", "i", "o", "n">>>>, <<>>, Undef, <<>>) } }

InitPipeline ==
  /\ ShellInit
  /\ arg \in PipelineElements
  /\ res = Null
  /\ pc = "input"

\* mapElementorToReactBricks(element) writing the component name into the
\* element it is given
MapElementInPlace ==
  /\ pc = "input"
  /\ res' = [component |-> mapElementorToReactBricks(arg, Undef)]
  /\ arg' = [arg EXCEPT !.type = res'.component.name]
  /\ pc' = "mapped"
  /\ UNCHANGED shellVars

\* mapElementorToReactBricks(element)
MapElement ==
  /\ pc = "input"
  /\ res' = [component |-> mapElementorToReactBricks(arg, Undef)]
  /\ pc' = "mapped"
  /\ UNCHANGED <<arg, shellVars>>

\* generateReactBricksComponent(component), with the default accumulator
GenerateCode ==
  LET Done(code) ==
        res' = [component |-> res.component,
                code |-> [threw |-> code.threw, text |-> code.text],
                imports |-> code.imports,
                others |-> 0,
                previous |-> Null,
                last |-> res.component,
                output |-> [threw |-> code.threw, text |-> code.text]]
  IN /\ pc = "mapped"
     /\ Done(generateReactBricksComponent(res.component, DefaultImports(<<>>)))
     /\ pc' = "generated"
     /\ UNCHANGED <<arg, shellVars>>

\* generateReactBricksComponent(other), with the default accumulator
GenerateOther ==
  LET Done(other, code) ==
        res' = [res EXCEPT !.imports = code.imports, !.others = @ + 1,
                           !.previous = res.last, !.last = other,
                           !.output = [threw |-> code.threw, text |-> code.text]]
  IN /\ pc = "generated"
     /\ res.others < MaxOtherCalls
     /\ \E other \in OtherComponents :
          Done(other, generateReactBricksComponent(other, DefaultImports(res.imports)))
     /\ UNCHANGED <<arg, pc, shellVars>>

\* generateReactBricksComponent(component) once more
GenerateAgain ==
  LET Done(code) ==
        res' = [component |-> res.component,
                code |-> res.code,
                imports |-> code.imports,
                others |-> res.others,
                previous |-> res.last,
                last |-> res.component,
                output |-> [threw |-> code.threw, text |-> code.text],
                again |-> [threw |-> code.threw, text |-> code.text]]
  IN /\ pc = "generated"
     /\ Done(generateReactBricksComponent(res.component, DefaultImports(res.imports)))
     /\ pc' = "again"
     /\ UNCHANGED <<arg, shellVars>>

NextPipeline ==
  \/ MapElement
  \/ GenerateCode
  \/ GenerateOther
  \/ GenerateAgain

SpecPipeline == InitPipeline /\ [][NextPipeline]_vars

-----------------------------------------------------------------------------
(* mapFontSize applied to one CSS length *)

MaxFontSteps == 400

FontUnits == { <<"p", "x">>, <<"e", "m">>, <<"r", "e", "m">>, <<"p", "t">>, <<"%">>, <<>> }

\* lengths from 0 in steps of an eighth, each with its unit
FontSizes ==
  { [size |-> k * 125, unit |-> unit,
     text |-> NumberToString(Number(k * 125)) \o unit] :
      k \in 0..MaxFontSteps, unit \in FontUnits }

InitFontSize ==
  /\ ShellInit
  /\ arg \in FontSizes
  /\ res = Null
  /\ pc = "length"

ApplyMapFontSize ==
  /\ pc = "length"
  /\ res' = mapFontSize(arg.text)
  /\ pc' = "sized"
  /\ UNCHANGED <<arg, shellVars>>

SpecFontSize == InitFontSize /\ [][ApplyMapFontSize]_vars

-----------------------------------------------------------------------------
(* parseElementorPage applied to what one fetch settles to *)

InitParse ==
  /\ ShellInit
  /\ arg \in [response : Responses, draws : Draws(MaxPageNodes)]
  /\ res = Null
  /\ pc = "fetched"

ApplyParse ==
  /\ pc = "fetched"
  /\ res' = parseElementorPage(arg.response, arg.draws)
  /\ pc' = "parsed"
  /\ UNCHANGED <<arg, shellVars>>

SpecParse == InitParse /\ [][ApplyParse]_vars

-----------------------------------------------------------------------------
(* Properties *)

\* the descriptions of the children are the mappings of the children, one
\* for one and in order, at every depth
RECURSIVE ChildrenMirrored(_, _)
ChildrenMirrored(element, component) ==
  /\ Len(component.children) = Len(element.children)
  /\ \A i \in DOMAIN element.children :
       /\ component.children[i]
            = mapElementorToReactBricks(element.children[i], Str(element.type))
       /\ ChildrenMirrored(element.children[i], component.children[i])

\* C1: for every Element, at every depth, the mapped description has as many
\* children as the Element, and its i-th child is the mapping of the Element's
\* i-th child: none is dropped, merged, duplicated or reordered.
ChildrenKeepArityAndOrder ==
  pc = "mapped" => ChildrenMirrored(arg, res.component)

\* an Element with two children of different types has been mapped
TwoDifferentChildrenMapped ==
  /\ pc = "mapped"
  /\ Len(arg.children) = 2
  /\ arg.children[1].type = <<"h", "e", "a", "d", "i", "n", "g">>
  /\ arg.children[2].type = <<"c", "o", "l", "u", "m", "n">>
  /\ Len(res.component.children) = 2
  /\ res.component.children[1].name = <<"h", "e", "a", "d", "i", "n", "g", "-", "b", "l", "o", "c", "k">>
  /\ res.component.children[2].name = <<"c", "o", "l", "u", "m", "n", "-", "b", "l", "o", "c", "k">>

\* C2: mapping and generation never raise: for every Element, of any type and
\* with content, settings, styles and children present or absent, generating
\* code for its description returns text.
GenerationNeverRaises ==
  pc = "generated" => ~res.code.threw

\* some element of the forest, at any depth, carries the class elementor
RECURSIVE HasContainer(_)
HasContainer(els) ==
  \E i \in DOMAIN els :
    \/ Contains(ClassList(els[i]), <<"e", "l", "e", "m", "e", "n", "t", "o", "r">>)
    \/ HasContainer(els[i].children)

\* C3: parsing a document with no element matching the root container fails
\* with the not-found error and nothing else (no title, no elements, no
\* global styles), and the error differs from that of a failed fetch.
NoContainerRejectsWithNotFound ==
  (pc = "parsed" /\ arg.response.t = "document"
     /\ ~HasContainer(arg.response.v.body))
    => /\ DOMAIN res = {"rejected", "message"}
       /\ res.rejected
       /\ res.message = NoElementorContent
       /\ res.message \notin NetworkMessages

\* a page that holds builder elements but no root container has been parsed
PageWithoutContainerParsed ==
  /\ pc = "parsed"
  /\ arg.response.t = "document"
  /\ arg.response.v.body # <<>>
  /\ ~HasContainer(arg.response.v.body)
  /\ res.rejected
  /\ res.message = NoElementorContent

\* C4: generating twice for the same description, each call with the default
\* import accumulator, gives the same outcome and the same text, whatever
\* was generated in between.
SecondCallGivesSameText ==
  pc = "again" => res.again = res.code

\* text was generated, then code for another description, then the same text
RegeneratedAfterAnotherCall ==
  /\ pc = "again"
  /\ res.others = 1
  /\ ~res.code.threw
  /\ Len(res.code.text) > 0
  /\ res.again.text = res.code.text

\* the number of places where the fragments of part occur in text
Occurrences(text, part) ==
  Cardinality({ i \in 1..(Len(text) - Len(part) + 1) :
                  SubSeq(text, i, i + Len(part) - 1) = part })

NamedOnce(text, name, componentName) ==
  /\ Occurrences(text, <<"  name: '">> \o name \o <<"',\n">>) = 1
  /\ Occurrences(text, <<"export interface ">> \o componentName \o <<"Props {\n">>) = 1
  /\ Occurrences(text, <<"export interface ">>) = 1
  /\ Occurrences(text, <<"const ">> \o componentName \o <<": types.Brick<">>
                         \o componentName \o <<"Props> = ({\n">>) = 1
  /\ Occurrences(text, <<"\n">> \o componentName \o <<".schema = {\n">>) = 1
  /\ Occurrences(text, <<"\nexport default ">> \o componentName \o <<";\n">>) = 1

\* C5: for every description, the generated text holds exactly one name
\* literal with the description's name and exactly one props-type
\* declaration, named by the pascal-cased name followed by Props; the same
\* identifier names the render function, the schema and the default export.
TextNamesComponentOnce ==
  pc = "generated"
    => /\ ~res.code.threw
       /\ NamedOnce(res.code.text, res.component.name,
                    pascalCase(res.component.name))
       /\ (res.component.name = <<"h", "e", "a", "d", "i", "n", "g", "-", "b", "l", "o", "c", "k">>
             => pascalCase(res.component.name) = <<"H", "e", "a", "d", "i", "n", "g", "B", "l", "o", "c", "k">>)

\* the first bucket whose inclusive upper threshold is at least size
ExpectedWidth(size) ==
  IF size <= 25000 THEN <<"1", "/", "4">>
  ELSE IF size <= 33330 THEN <<"1", "/", "3">>
  ELSE IF size <= 50000 THEN <<"1", "/", "2">>
  ELSE IF size <= 66660 THEN <<"2", "/", "3">>
  ELSE IF size <= 75000 THEN <<"3", "/", "4">>
  ELSE <<"f", "u", "l", "l">>

\* C6: for every column Element whose _column_size is a number in [0, 100],
\* props.width is defined and is the first bucket whose inclusive upper
\* threshold is at least the size.
ColumnWidthDefinedOnRange ==
  (pc = "mapped" /\ arg.type = <<"c", "o", "l", "u", "m", "n">>
     /\ Get(arg.settings, <<"_", "c", "o", "l", "u", "m", "n", "_", "s", "i", "z", "e">>).v.v \in 0..100000)
    => Get(res.component.props, <<"w", "i", "d", "t", "h">>)
         = Str(ExpectedWidth(Get(arg.settings, <<"_", "c", "o", "l", "u", "m", "n", "_", "s", "i", "z", "e">>).v.v))

FontSizeNames ==
  <<<<"x", "s">>, <<"s", "m">>, <<"b", "a", "s", "e">>, <<"l", "g">>, <<"x", "l">>, <<"2", "x", "l">>, <<"3", "x", "l">>, <<"4", "x", "l">>,
    <<"5", "x", "l">>, <<"6", "x", "l">>>>

FontSizeThresholds == <<12, 14, 16, 18, 20, 24, 30, 36, 48>>

\* the name of the first threshold that is at least px (in thousandths)
ExpectedFontSize(px) ==
  LET fits == { i \in DOMAIN FontSizeThresholds : px <= FontSizeThresholds[i] * 1000 }
  IN IF fits = {} THEN FontSizeNames[10] ELSE FontSizeNames[Min(fits)]

\* C7: mapFontSize multiplies em and rem by 16 before bucketing and buckets
\* with inclusive upper thresholds 12 xs, 14 sm, 16 base, 18 lg, 20 xl,
\* 24 2xl, 30 3xl, 36 4xl, 48 5xl, else 6xl; every input gives exactly one
\* of the ten names.
FontSizeBuckets ==
  pc = "sized"
    => /\ \E i \in DOMAIN FontSizeNames : res = FontSizeNames[i]
       /\ arg.unit = <<"p", "x">> => res = ExpectedFontSize(arg.size)
       /\ arg.unit \in {<<"e", "m">>, <<"r", "e", "m">>} => res = ExpectedFontSize(arg.size * 16)
       /\ arg.text = <<"1", "6", "p", "x">> => res = <<"b", "a", "s", "e">>
       /\ arg.text = <<"2", "4", "p", "x">> => res = <<"2", "x", "l">>
       /\ arg.text = <<"1", ".", "5", "r", "e", "m">> => res = <<"2", "x", "l">>

\* 1.5rem has been mapped, to 2xl
RemSizeBucketed ==
  /\ pc = "sized"
  /\ arg.text = <<"1", ".", "5", "r", "e", "m">>
  /\ res = <<"2", "x", "l">>

\* C8: for every button Element props.type is link when the link marker
\* class is present, whether or not the outline marker is, otherwise outline
\* when the outline marker class is present, otherwise solid.
ButtonTypeFollowsMarkers ==
  (pc = "mapped" /\ arg.type = <<"b", "u", "t", "t", "o", "n">>)
    => Get(res.component.props, <<"t", "y", "p", "e">>)
         = Str(IF Contains(arg.classes, LinkMarker) THEN <<"l", "i", "n", "k">>
               ELSE IF Contains(arg.classes, OutlineMarker) THEN <<"o", "u", "t", "l", "i", "n", "e">>
               ELSE <<"s", "o", "l", "i", "d">>)

\* a button with the outline marker written before the link marker is a link
OutlineThenLinkMapped ==
  /\ pc = "mapped"
  /\ arg.type = <<"b", "u", "t", "t", "o", "n">>
  /\ Len(arg.classes) = 5
  /\ arg.classes[4] = OutlineMarker
  /\ arg.classes[5] = LinkMarker
  /\ Get(res.component.props, <<"t", "y", "p", "e">>) = Str(<<"l", "i", "n", "k">>)

VideoPropsShaped(props, content) ==
  /\ \/ /\ Get(props, <<"t", "y", "p", "e">>) = Str(<<"s", "t", "r", "e", "a", "m", "i", "n", "g">>)
        /\ Get(props, <<"p", "l", "a", "t", "f", "o", "r", "m">>) \in {Str(<<"y", "o", "u", "t", "u", "b", "e">>), Str(<<"v", "i", "m", "e", "o">>)}
        /\ Truthy(Get(props, <<"v", "i", "d", "e", "o", "I", "d">>))
     \/ /\ Get(props, <<"t", "y", "p", "e">>) = Str(<<"f", "i", "l", "e">>)
        /\ ~Has(props, <<"p", "l", "a", "t", "f", "o", "r", "m">>)
        /\ ~Has(props, <<"v", "i", "d", "e", "o", "I", "d">>)
  /\ Has(props, <<"v", "i", "d", "e", "o", "F", "i", "l", "e">>) => Get(props, <<"t", "y", "p", "e">>) = Str(<<"f", "i", "l", "e">>)
  /\ \A embed \in VideoEmbeds :
       content = Str(embed.content)
         => /\ Get(props, <<"t", "y", "p", "e">>) = Str(<<"s", "t", "r", "e", "a", "m", "i", "n", "g">>)
            /\ Get(props, <<"p", "l", "a", "t", "f", "o", "r", "m">>) = Str(<<"y", "o", "u", "t", "u", "b", "e">>)
            /\ Get(props, <<"v", "i", "d", "e", "o", "I", "d">>) = Str(embed.id)
  /\ \A file \in VideoFiles :
       content = Str(file.content)
         => /\ Get(props, <<"t", "y", "p", "e">>) = Str(<<"f", "i", "l", "e">>)
            /\ GetIn(Get(props, <<"v", "i", "d", "e", "o", "F", "i", "l", "e">>), <<"u", "r", "l">>) = Str(file.src)

\* C9: for every video Element the props are either streaming with a
\* platform among youtube and vimeo and a non-empty videoId, or file with
\* neither; videoFile comes only with file; a youtube.com/embed/<id> content
\* gives streaming, youtube and the id; a content with a video tag whose src
\* ends in mp4, webm or ogg gives file with videoFile.url equal to the src.
VideoPropsFollowContent ==
  (pc = "mapped" /\ arg.type = <<"v", "i", "d", "e", "o">>)
    => VideoPropsShaped(res.component.props, arg.content)

FamilyParts ==
  { <<"h", "e", "a", "d", "i", "n", "g">>, <<"t", "e", "x", "t">>, <<"i", "m", "a", "g", "e">>, <<"v", "i", "d", "e", "o">>, <<"b", "u", "t", "t", "o", "n">>, <<"f", "o", "r", "m">> }

PlaceholderLine ==
  "      <div className=\"text-sm text-gray-500 mb-2\">Generic Component</div>\n"

\* C10: an Element whose type has no per-type rule maps to a description
\* with non-empty name, label and category, the category being Other when no
\* family substring matches, and generating code for it returns text whose
\* render body is the placeholder container.
UnknownTypeGetsPlaceholder ==
  (pc = "generated" /\ arg.type \notin PerTypeRules)
    => /\ res.component.name # <<>>
       /\ res.component.label # <<>>
       /\ res.component.category # <<>>
       /\ (\A part \in FamilyParts : ~includes(arg.type, part))
            => res.component.category = <<"O", "t", "h", "e", "r">>
       /\ ~res.code.threw
       /\ Contains(res.code.text, PlaceholderLine)

\* the parent types a caller can pass: none, or the type of an Element
ParentTypes ==
  { Undef, Str(<<"s", "e", "c", "t", "i", "o", "n">>), Str(<<"c", "o", "l", "u", "m", "n">>), Str(<<"w", "i", "d", "g", "e", "t">>) }

\* C11: mapping does not depend on the position in the tree: each child
\* mapped on its own, without a parent type, equals the corresponding entry
\* of the parent's mapped children, and the mapped result of an Element is
\* the same for any two parent types.
MappingIgnoresPosition ==
  pc = "mapped"
    => /\ \A i \in DOMAIN arg.children :
            mapElementorToReactBricks(arg.children[i], Undef)
              = res.component.children[i]
       /\ \A parentType \in ParentTypes :
            mapElementorToReactBricks(arg, parentType) = res.component

\* a section holding a column has been mapped, the column to a half width
ColumnInsideSectionMapped ==
  /\ pc = "mapped"
  /\ arg.type = <<"s", "e", "c", "t", "i", "o", "n">>
  /\ Len(arg.children) > 0
  /\ arg.children[1].type = <<"c", "o", "l", "u", "m", "n">>
  /\ res.component.children[1].name = <<"c", "o", "l", "u", "m", "n", "-", "b", "l", "o", "c", "k">>
  /\ Get(res.component.children[1].props, <<"w", "i", "d", "t", "h">>) = Str(<<"1", "/", "2">>)

\* the line that gives a rich-text field its value: the editable prop, or
\* else the literal default
RichTextValueLine(prop, default) ==
  <<"      value={" \o prop \o " || { text: ">> \o JSONstringify(default) \o <<" }}\n">>

\* C12: for a heading or text Element with non-empty content, the code
\* generated from its description gives the rich-text field the tag-stripped,
\* trimmed text of the content as its literal default, next to the editable
\* prop, and not the placeholder used when there is no content.
ContentBakedIntoRichText ==
  (pc = "generated" /\ arg.type \in {<<"h", "e", "a", "d", "i", "n", "g">>, <<"t", "e", "x", "t", "-", "e", "d", "i", "t", "o", "r">>}
     /\ Truthy(arg.content))
    => /\ ~res.code.threw
       /\ Occurrences(res.code.text,
            RichTextValueLine(IF arg.type = <<"h", "e", "a", "d", "i", "n", "g">> THEN "title" ELSE "text",
                              CleanText(arg.content.v))) = 1

\* the text opens with the import lines of the component's own subtree
OpensWithOwnImports(text, component) ==
  SubSeq(text, 1, Len(generateImports(RequiredImports(component))))
    = generateImports(RequiredImports(component))

\* C13: the import accumulator does not leak between calls that use the
\* default accumulator: the import lines of each output are those of that
\* call's component subtree alone, and a heading-only output generated after
\* a section holds no section import.
ImportsDoNotLeak ==
  pc \in {"generated", "again"}
    => /\ res.imports = AddAll(<<>>, RequiredImports(res.last))
       /\ ~res.output.threw => OpensWithOwnImports(res.output.text, res.last)
       /\ (~res.output.threw /\ res.last.name = <<"h", "e", "a", "d", "i", "n", "g", "-", "b", "l", "o", "c", "k">>
             /\ res.last.children = <<>>)
            => \A i \in DOMAIN SectionImports :
                 ~Contains(res.output.text, SectionImports[i])

\* code for a heading was generated right after code for a section
HeadingGeneratedAfterSection ==
  /\ pc = "again"
  /\ res.previous # Null
  /\ res.previous.name = <<"s", "e", "c", "t", "i", "o", "n", "-", "b", "l", "o", "c", "k">>
  /\ res.last.name = <<"h", "e", "a", "d", "i", "n", "g", "-", "b", "l", "o", "c", "k">>
  /\ res.last.children = <<>>
  /\ ~res.output.threw
  /\ Contains(res.output.text, TextImports[1])
  /\ ~Contains(res.output.text, SectionImports[2])

\* the schema names the component and holds a default-props block and a
\* list of editable properties
SchemaHasBlocks(schema, component) ==
  /\ Occurrences(schema, <<"  name: '">> \o component.name \o <<"',\n">>) = 1
  /\ Occurrences(schema, <<"  label: '">> \o component.label \o <<"',\n">>) = 1
  /\ Occurrences(schema, <<"  category: '">> \o component.category \o <<"',\n">>) = 1
  /\ Contains(schema, "  getDefaultProps: () => ({\n")
  /\ Contains(schema, "  sideEditProps: [\n")

\* the schema holds a repeater of zero to two buttons
SchemaHasButtonRepeater(schema) ==
  \E i \in DOMAIN schema :
    /\ schema[i] = "  repeaterItems: [\n"
    /\ \E j, k \in i..Len(schema) :
         schema[j] = "      min: 0,\n" /\ schema[k] = "      max: 2,\n"

\* C14: for every description of every family (section, column, heading,
\* text, image, button, video, unrecognized) the schema block holds name,
\* label and category, a default-props block and a list of editable
\* property descriptors; for a section-like component it also holds a
\* repeater descriptor for buttons with minimum 0 and maximum 2.
SchemaBlockComplete ==
  pc = "mapped"
    => /\ SchemaHasBlocks(generateSchema(res.component), res.component)
       /\ includes(res.component.name, <<"s", "e", "c", "t", "i", "o", "n">>)
            => SchemaHasButtonRepeater(generateSchema(res.component))

\* the step is a call of generateComponent that returned code
GeneratedStep ==
  /\ toast' = ToastSuccess(<<"C", "o", "m", "p", "o", "n", "e", "n", "t", " ", "g", "e", "n", "e", "r", "a", "t", "e", "d", " ", "s", "u", "c", "c", "e", "s", "s", "f", "u", "l", "l", "y">>)
  /\ generatedCode' # <<>>
  /\ <<generatedCode, selectedElement, activeTab, toast>>'
       # <<generatedCode, selectedElement, activeTab, toast>>

\* the step is a call of generateComponent that raised
GenerationFailedStep ==
  /\ toast' = ToastError(<<"F", "a", "i", "l", "e", "d", " ", "t", "o", " ", "g", "e", "n", "e", "r", "a", "t", "e", " ", "c", "o", "m", "p", "o", "n", "e", "n", "t">>)
  /\ toast' # toast

\* the code and the selection after the step are those of element
GeneratedFrom(element) ==
  LET Is(code) ==
        /\ ~code.threw
        /\ generatedCode' = code.text
        /\ selectedElement' = Str(element.id)
  IN Is(generateReactBricksComponent(mapElementorToReactBricks(element, Undef), <<>>))

\* the page held is what parseElementorPage returned for some response
HeldPageWasParsed ==
  \E response \in Responses, draws \in Draws(MaxPageNodes) :
    LET Is(data) ==
          /\ ~data.rejected
          /\ parsedData.title = data.title
          /\ parsedData.elements = data.elements
    IN Is(parseElementorPage(response, draws))

-----------------------------------------------------------------------------
(* One builder element: parsed out of its container, then mapped *)

\* class attributes: markers alone and together, widget classes with and
\* without the widget marker, before it, and two of them
ClassValues ==
  { <<"e", "l", "e", "m", "e", "n", "t", "o", "r", "-", "e", "l", "e", "m", "e", "n", "t", " ", "e", "l", "e", "m", "e", "n", "t", "o", "r", "-", "s", "e", "c", "t", "i", "o", "n">>,
    <<"e", "l", "e", "m", "e", "n", "t", "o", "r", "-", "e", "l", "e", "m", "e", "n", "t", " ", "e", "l", "e", "m", "e", "n", "t", "o", "r", "-", "c", "o", "l", "u", "m", "n">>,
    <<"e", "l", "e", "m", "e", "n", "t", "o", "r", "-", "e", "l", "e", "m", "e", "n", "t", " ", "e", "l", "e", "m", "e", "n", "t", "o", "r", "-", "c", "o", "l", "u", "m", "n", " ", "e", "l", "e", "m", "e", "n", "t", "o", "r", "-", "s", "e", "c", "t", "i", "o", "n">>,
    <<"e", "l", "e", "m", "e", "n", "t", "o", "r", "-", "e", "l", "e", "m", "e", "n", "t", " ", "e", "l", "e", "m", "e", "n", "t", "o", "r", "-", "w", "i", "d", "g", "e", "t", " ", "e", "l", "e", "m", "e", "n", "t", "o", "r", "-", "w", "i", "d", "g", "e", "t", "-", "h", "e", "a", "d", "i", "n", "g", " ", "e", "l", "e", "m", "e", "n", "t", "o", "r", "-", "s", "e", "c", "t", "i", "o", "n">>,
    <<"e", "l", "e", "m", "e", "n", "t", "o", "r", "-", "e", "l", "e", "m", "e", "n", "t", " ", "e", "l", "e", "m", "e", "n", "t", "o", "r", "-", "w", "i", "d", "g", "e", "t", " ", "e", "l", "e", "m", "e", "n", "t", "o", "r", "-", "w", "i", "d", "g", "e", "t", "-", "i", "m", "a", "g", "e", " ", "e", "l", "e", "m", "e", "n", "t", "o", "r", "-", "c", "o", "l", "u", "m", "n">>,
    <<"e", "l", "e", "m", "e", "n", "t", "o", "r", "-", "e", "l", "e", "m", "e", "n", "t", " ", "e", "l", "e", "m", "e", "n", "t", "o", "r", "-", "w", "i", "d", "g", "e", "t", " ", "e", "l", "e", "m", "e", "n", "t", "o", "r", "-", "w", "i", "d", "g", "e", "t", "-", "h", "e", "a", "d", "i", "n", "g">>,
    <<"e", "l", "e", "m", "e", "n", "t", "o", "r", "-", "e", "l", "e", "m", "e", "n", "t", " ", "e", "l", "e", "m", "e", "n", "t", "o", "r", "-", "w", "i", "d", "g", "e", "t", " ", "e", "l", "e", "m", "e", "n", "t", "o", "r", "-", "w", "i", "d", "g", "e", "t", "-", "t", "e", "x", "t", "-", "e", "d", "i", "t", "o", "r">>,
    <<"e", "l", "e", "m", "e", "n", "t", "o", "r", "-", "e", "l", "e", "m", "e", "n", "t", " ", "e", "l", "e", "m", "e", "n", "t", "o", "r", "-", "w", "i", "d", "g", "e", "t", " ", "e", "l", "e", "m", "e", "n", "t", "o", "r", "-", "w", "i", "d", "g", "e", "t", "-", "i", "m", "a", "g", "e">>,
    <<"e", "l", "e", "m", "e", "n", "t", "o", "r", "-", "e", "l", "e", "m", "e", "n", "t", " ", "e", "l", "e", "m", "e", "n", "t", "o", "r", "-", "w", "i", "d", "g", "e", "t", " ", "e", "l", "e", "m", "e", "n", "t", "o", "r", "-", "w", "i", "d", "g", "e", "t", "-", "b", "u", "t", "t", "o", "n">>,
    <<"e", "l", "e", "m", "e", "n", "t", "o", "r", "-", "e", "l", "e", "m", "e", "n", "t", " ", "e", "l", "e", "m", "e", "n", "t", "o", "r", "-", "w", "i", "d", "g", "e", "t">>,
    <<"e", "l", "e", "m", "e", "n", "t", "o", "r", "-", "e", "l", "e", "m", "e", "n", "t">>,
    <<"e", "l", "e", "m", "e", "n", "t", "o", "r", "-", "e", "l", "e", "m", "e", "n", "t", " ", "e", "l", "e", "m", "e", "n", "t", "o", "r", "-", "w", "i", "d", "g", "e", "t", "-", "v", "i", "d", "e", "o">>,
    <<"e", "l", "e", "m", "e", "n", "t", "o", "r", "-", "w", "i", "d", "g", "e", "t", "-", "h", "e", "a", "d", "i", "n", "g", " ", " ", "e", "l", "e", "m", "e", "n", "t", "o", "r", "-", "e", "l", "e", "m", "e", "n", "t", " ", "e", "l", "e", "m", "e", "n", "t", "o", "r", "-", "w", "i", "d", "g", "e", "t">>,
    <<"e", "l", "e", "m", "e", "n", "t", "o", "r", "-", "e", "l", "e", "m", "e", "n", "t", " ", "e", "l", "e", "m", "e", "n", "t", "o", "r", "-", "w", "i", "d", "g", "e", "t", " ", "e", "l", "e", "m", "e", "n", "t", "o", "r", "-", "w", "i", "d", "g", "e", "t", "-", "v", "i", "d", "e", "o", " ", "e", "l", "e", "m", "e", "n", "t", "o", "r", "-", "w", "i", "d", "g", "e", "t", "-", "i", "m", "a", "g", "e">> }

\* style attributes: none, one and two declarations, a value holding colons,
\* empty segments, a declaration without value and one without property
StyleValues ==
  { <<>>,
    <<"b", "a", "c", "k", "g", "r", "o", "u", "n", "d", "-", "c", "o", "l", "o", "r", ":", " ", "#", "f", "f", "0", "0", "0", "0">>,
    <<"b", "a", "c", "k", "g", "r", "o", "u", "n", "d", "-", "c", "o", "l", "o", "r", ":", " ", "r", "g", "b", "(", "0", ",", " ", "0", ",", " ", "2", "5", "5", ")", ";", " ", "t", "e", "x", "t", "-", "a", "l", "i", "g", "n", ":", " ", "r", "i", "g", "h", "t", ";">>,
    <<"t", "e", "x", "t", "-", "a", "l", "i", "g", "n", ":", " ", "c", "e", "n", "t", "e", "r">>,
    <<"p", "a", "d", "d", "i", "n", "g", "-", "t", "o", "p", ":", " ", "2", "0", "p", "x">>,
    <<"p", "a", "d", "d", "i", "n", "g", ":", " ", "1", "0", "p", "x", " ", "2", "0", "p", "x">>,
    <<"m", "a", "r", "g", "i", "n", ":", "0">>,
    <<"b", "a", "c", "k", "g", "r", "o", "u", "n", "d", "-", "i", "m", "a", "g", "e", ":", " ", "u", "r", "l", "(", "h", "t", "t", "p", ":", "/", "/", "h", "o", "s", "t", "/", "i", "m", "g", ".", "p", "n", "g", ")">>,
    <<";", ";", "c", "o", "l", "o", "r", ":", " ", "r", "e", "d", ";", ";", " ">>,
    <<"c", "o", "l", "o", "r", ":">>,
    <<":", " ", "x">>,
    <<" ", "t", "e", "x", "t", "-", "a", "l", "i", "g", "n", " ", ":", "l", "e", "f", "t", " ", ";", " ", "p", "a", "d", "d", "i", "n", "g", "-", "t", "o", "p", ":", " ", " ", "8", "p", "x", " ">> }

\* data attributes, each with the value JSON.parse gives for it (Undef where
\* JSON.parse throws)
Setting(name, value, decoded) == [name |-> name, value |-> value, decoded |-> decoded]

SettingValues ==
  { Setting(<<"d", "a", "t", "a", "-", "s", "e", "t", "t", "i", "n", "g", "s">>, <<"{", "\"", "a", "\"", ":", "1", "}">>, Obj(<<E(<<"a">>, Num(Number(1 * Scale)))>>)),
    Setting(<<"d", "a", "t", "a", "-", "s", "e", "t", "t", "i", "n", "g", "s">>, <<"{", "\"", "s", "t", "r", "u", "c", "t", "u", "r", "e", "\"", ":", " ", "\"", "2", "0", "\"", ",", " ", "\"", "o", "n", "\"", ":", " ", "t", "r", "u", "e", "}">>,
            Obj(<<E(<<"s", "t", "r", "u", "c", "t", "u", "r", "e">>, Str(<<"2", "0">>)), E(<<"o", "n">>, Bool(TRUE))>>)),
    Setting(<<"d", "a", "t", "a", "-", "l", "i", "s", "t">>, <<"[", "1", ",", " ", "\"", "b", "\"", "]">>, Arr(<<Num(Number(1 * Scale)), Str(<<"b">>)>>)),
    Setting(<<"d", "a", "t", "a", "-", "o", "n">>, <<"t", "r", "u", "e">>, Bool(TRUE)),
    Setting(<<"d", "a", "t", "a", "-", "i", "d">>, <<"7">>, Num(Number(7 * Scale))),
    Setting(<<"d", "a", "t", "a", "-", "n", "a", "m", "e">>, <<"\"", "q", "\"">>, Str(<<"q">>)),
    Setting(<<"d", "a", "t", "a", "-", "n", "o", "n", "e">>, <<"n", "u", "l", "l">>, Null),
    Setting(<<"d", "a", "t", "a", "-", "e", "l", "e", "m", "e", "n", "t", "_", "t", "y", "p", "e">>, <<"w", "i", "d", "g", "e", "t">>, Undef),
    Setting(<<"d", "a", "t", "a", "-", "w", "i", "d", "g", "e", "t", "_", "t", "y", "p", "e">>, <<"h", "e", "a", "d", "i", "n", "g", ".", "d", "e", "f", "a", "u", "l", "t">>, Undef),
    Setting(<<"d", "a", "t", "a", "-", "s", "e", "t", "t", "i", "n", "g", "s">>, <<"{", "b", "a", "d">>, Undef),
    Setting(<<"d", "a", "t", "a", "-", "s", "e", "t", "t", "i", "n", "g", "s">>, <<"{", "\"", "a", "\"", ":", "1", "}", " ", "x">>, Undef),
    Setting(<<"d", "a", "t", "a", "-", "s", "e", "t", "t", "i", "n", "g", "s">>, <<"{", "'", "a", "'", ":", "1", "}">>, Undef),
    Setting(<<"d", "a", "t", "a", "-", "d", "a", "t", "a", "-", "x">>, <<>>, Undef),
    Setting(<<"d", "a", "t", "a", "-", "i", "d">>, <<"0", "7">>, Undef) }

\* the attribute lists of an element: class, then the data attributes, then
\* style and title
AttributesOf(class, settings, style) ==
  <<E(<<"c", "l", "a", "s", "s">>, class)>>
    \o [i \in DOMAIN settings |-> E(settings[i].name, settings[i].value)]
    \o (IF style = <<>> THEN <<>> ELSE <<E(<<"s", "t", "y", "l", "e">>, style)>>)
    \o <<E(<<"t", "i", "t", "l", "e">>, <<"T">>)>>

\* the data attributes an element carries: none, one, or an undecodable one
\* between two others
SettingLists ==
  { <<>> } \cup { <<setting>> : setting \in SettingValues }
    \cup { <<Setting(<<"d", "a", "t", "a", "-", "i", "d">>, <<"7">>, Num(Number(7 * Scale))), setting,
             Setting(<<"d", "a", "t", "a", "-", "o", "n">>, <<"t", "r", "u", "e">>, Bool(TRUE))>> :
             setting \in { s \in SettingValues :
                             s.name \notin {<<"d", "a", "t", "a", "-", "i", "d">>, <<"d", "a", "t", "a", "-", "o", "n">>} } }

InnerMarkup == <<"<", "h", "2", ">", "H", "i", "<", "/", "h", "2", ">">>

\* the markup inside a video or button widget: a YouTube embed, a Vimeo embed,
\* a hosted video, a link
MediaMarkups ==
  { <<"<", "i", "f", "r", "a", "m", "e", " ", "s", "r", "c", "=", "\"", "h", "t", "t", "p", "s", ":", "/", "/", "w", "w", "w", ".", "y", "o", "u", "t", "u", "b", "e", ".", "c", "o", "m", "/", "e", "m", "b", "e", "d", "/", "a", "b", "c", "1", "2", "3", "\"", ">", "<", "/", "i", "f", "r", "a", "m", "e", ">">>,
    <<"<", "i", "f", "r", "a", "m", "e", " ", "s", "r", "c", "=", "\"", "h", "t", "t", "p", "s", ":", "/", "/", "p", "l", "a", "y", "e", "r", ".", "v", "i", "m", "e", "o", ".", "c", "o", "m", "/", "v", "i", "d", "e", "o", "/", "7", "6", "9", "7", "9", "8", "7", "1", "\"", ">", "<", "/", "i", "f", "r", "a", "m", "e", ">">>,
    <<"<", "v", "i", "d", "e", "o", " ", "s", "r", "c", "=", "\"", "x", ".", "m", "p", "4", "\"", ">", "<", "/", "v", "i", "d", "e", "o", ">">>,
    <<"<", "a", " ", "h", "r", "e", "f", "=", "\"", "/", "g", "o", "\"", " ", "c", "l", "a", "s", "s", "=", "\"", "e", "l", "e", "m", "e", "n", "t", "o", "r", "-", "b", "u", "t", "t", "o", "n", "\"", ">", "B", "u", "y", "<", "/", "a", ">">> }

MediaClassValues ==
  { <<"e", "l", "e", "m", "e", "n", "t", "o", "r", "-", "e", "l", "e", "m", "e", "n", "t", " ", "e", "l", "e", "m", "e", "n", "t", "o", "r", "-", "w", "i", "d", "g", "e", "t", " ", "e", "l", "e", "m", "e", "n", "t", "o", "r", "-", "w", "i", "d", "g", "e", "t", "-", "v", "i", "d", "e", "o">>,
    <<"e", "l", "e", "m", "e", "n", "t", "o", "r", "-", "e", "l", "e", "m", "e", "n", "t", " ", "e", "l", "e", "m", "e", "n", "t", "o", "r", "-", "w", "i", "d", "g", "e", "t", " ", "e", "l", "e", "m", "e", "n", "t", "o", "r", "-", "w", "i", "d", "g", "e", "t", "-", "b", "u", "t", "t", "o", "n">>,
    <<"e", "l", "e", "m", "e", "n", "t", "o", "r", "-", "e", "l", "e", "m", "e", "n", "t", " ", "e", "l", "e", "m", "e", "n", "t", "o", "r", "-", "w", "i", "d", "g", "e", "t", " ", "e", "l", "e", "m", "e", "n", "t", "o", "r", "-", "w", "i", "d", "g", "e", "t", "-", "b", "u", "t", "t", "o", "n", " ", "e", "l", "e", "m", "e", "n", "t", "o", "r", "-", "b", "u", "t", "t", "o", "n", "-", "l", "i", "n", "k">> }

MediaSettingLists ==
  { <<>>,
    <<Setting(<<"d", "a", "t", "a", "-", "v", "i", "d", "e", "o", "_", "t", "y", "p", "e">>, <<"h", "o", "s", "t", "e", "d">>, Undef)>>,
    <<Setting(<<"d", "a", "t", "a", "-", "v", "i", "d", "e", "o", "_", "t", "y", "p", "e">>, <<"y", "o", "u", "t", "u", "b", "e">>, Undef)>> }

\* the elements parsed: every class with every style, the heading widget
\* with every list of data attributes, and the video and button widgets with
\* every markup
NodeInputs ==
  { [class |-> class, settings |-> <<>>, style |-> style, markup |-> markup] :
      class \in ClassValues, style \in StyleValues, markup \in {InnerMarkup} }
    \cup
  { [class |-> <<"e", "l", "e", "m", "e", "n", "t", "o", "r", "-", "e", "l", "e", "m", "e", "n", "t", " ", "e", "l", "e", "m", "e", "n", "t", "o", "r", "-", "w", "i", "d", "g", "e", "t", " ", "e", "l", "e", "m", "e", "n", "t", "o", "r", "-", "w", "i", "d", "g", "e", "t", "-", "h", "e", "a", "d", "i", "n", "g">>,
     settings |-> settings, style |-> <<"t", "e", "x", "t", "-", "a", "l", "i", "g", "n", ":", " ", "c", "e", "n", "t", "e", "r">>, markup |-> markup] :
      settings \in SettingLists, markup \in {<<>>, InnerMarkup} }
    \cup
  { [class |-> class, settings |-> settings, style |-> <<>>, markup |-> markup] :
      class \in MediaClassValues, settings \in MediaSettingLists, markup \in MediaMarkups }

NodeDom(node) ==
  DomElement(<<"D", "I", "V">>, AttributesOf(node.class, node.settings, node.style),
             node.markup, <<>>)

\* the element that follows the one under test in its container
SiblingDom ==
  DomElement(<<"P">>,
    <<E(<<"c", "l", "a", "s", "s">>, <<"e", "l", "e", "m", "e", "n", "t", "o", "r", "-", "e", "l", "e", "m", "e", "n", "t", " ", "e", "l", "e", "m", "e", "n", "t", "o", "r", "-", "w", "i", "d", "g", "e", "t", " ", "e", "l", "e", "m", "e", "n", "t", "o", "r", "-", "w", "i", "d", "g", "e", "t", "-", "t", "e", "x", "t", "-", "e", "d", "i", "t", "o", "r">>),
      E(<<"i", "d">>, <<"s", "i", "b">>),
      E(<<"d", "a", "t", "a", "-", "s", "e", "t", "t", "i", "n", "g", "s">>, <<"{", "\"", "k", "\"", ":", " ", "[", "t", "r", "u", "e", "]", "}">>),
      E(<<"s", "t", "y", "l", "e">>, <<"m", "a", "r", "g", "i", "n", ":", " ", "4", "p", "x">>)>>,
    <<"<", "p", ">", "T", "<", "/", "p", ">">>, <<>>)

ContainerOf(node) ==
  DomElement(<<"D", "I", "V">>, <<E(<<"c", "l", "a", "s", "s">>, <<"e", "l", "e", "m", "e", "n", "t", "o", "r", " ", "e", "l", "e", "m", "e", "n", "t", "o", "r", "-", "1", "2">>)>>, <<>>,
             <<NodeDom(node), SiblingDom>>)

InitElement ==
  /\ ShellInit
  /\ arg \in [node : NodeInputs, draws : Draws(MaxPageNodes)]
  /\ res = Null
  /\ pc = "dom"

\* parseElementorElements(container)
ParseContainer ==
  /\ pc = "dom"
  /\ res' = [elements |-> parseElementorElements(ContainerOf(arg.node), arg.draws, 0),
             component |-> Null]
  /\ pc' = "elements"
  /\ UNCHANGED <<arg, shellVars>>

\* mapElementorToReactBricks(elements[0])
MapParsedElement ==
  /\ pc = "elements"
  /\ res.elements # <<>>
  /\ res' = [res EXCEPT !.component = mapElementorToReactBricks(res.elements[1], Undef)]
  /\ pc' = "component"
  /\ UNCHANGED <<arg, shellVars>>

NextElement == ParseContainer \/ MapParsedElement

SpecElement == InitElement /\ [][NextElement]_vars

\* the declarations of a style attribute: every ;-separated segment cut at its
\* first colon, both sides trimmed
DeclarationsOf(styleAttr) ==
  LET Cut(segment, colon) ==
        IF colon = 0 THEN [p |-> trim(segment), v |-> <<>>]
        ELSE [p |-> trim(SubSeq(segment, 1, colon - 1)),
              v |-> trim(From(segment, colon + 1))]
      Each(segments) ==
        [i \in DOMAIN segments |-> Cut(segments[i], IndexOf(segments[i], <<":">>))]
  IN SelectSeq(Each(split(styleAttr, ";")), LAMBDA d : d.p # <<>> /\ d.v # <<>>)

\* C16: parse then map: an element whose style attribute declares
\* background-color: V is mapped with props.backgroundColor equal to the
\* background mapping of V, a declared text-align becomes props.textAlign and
\* a declared padding-top becomes props.paddingTop through the padding mapping
InlineStylesOverrideProps ==
  pc = "component" =>
    \A d \in Range(DeclarationsOf(arg.node.style)) :
      /\ d.p = <<"b", "a", "c", "k", "g", "r", "o", "u", "n", "d", "-", "c", "o", "l", "o", "r">> =>
           Get(res.component.props, <<"b", "a", "c", "k", "g", "r", "o", "u", "n", "d", "C", "o", "l", "o", "r">>) = ColorObj(mapBackgroundColor(d.v))
      /\ d.p = <<"t", "e", "x", "t", "-", "a", "l", "i", "g", "n">> =>
           Get(res.component.props, <<"t", "e", "x", "t", "A", "l", "i", "g", "n">>) = Str(d.v)
      /\ d.p = <<"p", "a", "d", "d", "i", "n", "g", "-", "t", "o", "p">> =>
           Get(res.component.props, <<"p", "a", "d", "d", "i", "n", "g", "T", "o", "p">>) = Str(mapSinglePadding(d.v))

\* the type the markers among a set of class tokens call for: Str(name), or
\* Undef where a prefixed widget class decides
TypeByPriority(tokens) ==
  IF <<"e", "l", "e", "m", "e", "n", "t", "o", "r", "-", "s", "e", "c", "t", "i", "o", "n">> \in tokens THEN Str(<<"s", "e", "c", "t", "i", "o", "n">>)
  ELSE IF <<"e", "l", "e", "m", "e", "n", "t", "o", "r", "-", "c", "o", "l", "u", "m", "n">> \in tokens THEN Str(<<"c", "o", "l", "u", "m", "n">>)
  ELSE IF <<"e", "l", "e", "m", "e", "n", "t", "o", "r", "-", "w", "i", "d", "g", "e", "t">> \in tokens
          /\ \E token \in tokens : startsWith(token, <<"e", "l", "e", "m", "e", "n", "t", "o", "r", "-", "w", "i", "d", "g", "e", "t", "-">>)
    THEN Undef
  ELSE Str(<<"w", "i", "d", "g", "e", "t">>)

\* C17: the type of a parsed element is section when its classes hold the
\* section marker, whatever else they hold; otherwise column when they hold the
\* column marker; otherwise, with the widget marker, one of its prefixed widget
\* classes without the prefix, or widget when it has none; otherwise widget
TypeResolvedByPriority ==
  pc \in {"elements", "component"} =>
    /\ Len(res.elements) = 2
    /\ LET Holds(tokens, type, expected) ==
             IF expected # Undef THEN Str(type) = expected
             ELSE \E token \in tokens :
                    /\ startsWith(token, <<"e", "l", "e", "m", "e", "n", "t", "o", "r", "-", "w", "i", "d", "g", "e", "t", "-">>)
                    /\ <<"e", "l", "e", "m", "e", "n", "t", "o", "r", "-", "w", "i", "d", "g", "e", "t", "-">> \o type = token
       IN Holds(Range(SplitWs(arg.node.class)), res.elements[1].type,
                TypeByPriority(Range(SplitWs(arg.node.class))))

SectionMarkerBeatsColumnAndWidget ==
  /\ pc = "elements"
  /\ arg.node.class \in
       { <<"e", "l", "e", "m", "e", "n", "t", "o", "r", "-", "e", "l", "e", "m", "e", "n", "t", " ", "e", "l", "e", "m", "e", "n", "t", "o", "r", "-", "c", "o", "l", "u", "m", "n", " ", "e", "l", "e", "m", "e", "n", "t", "o", "r", "-", "s", "e", "c", "t", "i", "o", "n">>,
         <<"e", "l", "e", "m", "e", "n", "t", "o", "r", "-", "e", "l", "e", "m", "e", "n", "t", " ", "e", "l", "e", "m", "e", "n", "t", "o", "r", "-", "w", "i", "d", "g", "e", "t", " ", "e", "l", "e", "m", "e", "n", "t", "o", "r", "-", "w", "i", "d", "g", "e", "t", "-", "h", "e", "a", "d", "i", "n", "g", " ", "e", "l", "e", "m", "e", "n", "t", "o", "r", "-", "s", "e", "c", "t", "i", "o", "n">> }
  /\ Len(res.elements) = 2
  /\ res.elements[1].type = <<"s", "e", "c", "t", "i", "o", "n">>

\* C18: the styles of a parsed element hold, for every segment p: v of its
\* style attribute, the text after the first colon, whole and trimmed, under
\* the trimmed text before it, and hold no key that no segment declares
StylesSplitAtFirstColon ==
  pc \in {"elements", "component"} =>
    /\ Len(res.elements) = 2
    /\ LET Agree(styles, declared) ==
             /\ \A i \in DOMAIN declared :
                  (\A j \in DOMAIN declared : j > i => declared[j].p # declared[i].p)
                    => Get(styles, declared[i].p) = Str(declared[i].v)
             /\ \A k \in DOMAIN styles :
                  \E i \in DOMAIN declared : declared[i].p = styles[k].k
       IN Agree(res.elements[1].styles, DeclarationsOf(arg.node.style))

\* C19: a data attribute whose value is not JSON is stored as the raw string
\* under its name without the data- prefix and one whose value is JSON is
\* stored decoded; the other data attributes, the other fields of the element
\* and the element after it are what they are without that attribute
UndecodableSettingKeptRaw ==
  pc \in {"elements", "component"} =>
    /\ Len(res.elements) = 2
    /\ LET Stored(settings, given) ==
             /\ Len(settings) = Len(given)
             /\ \A i \in DOMAIN given :
                  Get(settings, From(given[i].name, 6)) =
                    IF given[i].decoded = Undef THEN Str(given[i].value)
                    ELSE given[i].decoded
           Same(elements, without) ==
             /\ [elements[1] EXCEPT !.settings = <<>>] = without[1]
             /\ elements[2] = without[2]
       IN /\ Stored(res.elements[1].settings, arg.node.settings)
          /\ Same(res.elements,
                  parseElementorElements(
                    ContainerOf([arg.node EXCEPT !.settings = <<>>]), arg.draws, 0))
          /\ res.elements[2].settings =
               <<E(<<"s", "e", "t", "t", "i", "n", "g", "s">>, Obj(<<E(<<"k">>, Arr(<<Bool(TRUE)>>))>>))>>

UndecodableSettingBetweenTwoDecoded ==
  /\ pc = "elements"
  /\ Len(arg.node.settings) = 3
  /\ arg.node.settings[2].value = <<"{", "b", "a", "d">>
  /\ Len(res.elements) = 2
  /\ res.elements[1].settings =
       <<E(<<"i", "d">>, Num(Number(7 * Scale))), E(<<"s", "e", "t", "t", "i", "n", "g", "s">>, Str(<<"{", "b", "a", "d">>)),
         E(<<"o", "n">>, Bool(TRUE))>>
  /\ res.elements[1].attributes = <<E(<<"t", "i", "t", "l", "e">>, Str(<<"T">>))>>
  /\ res.elements[2].id = <<"s", "i", "b">>

\* C20: a parsed element has a content exactly when its type contains text or
\* heading, and the content is then the markup inside the node; an element of
\* type section, column, image, button, video or widget has none
ContentOnlyForTextAndHeading ==
  pc \in {"elements", "component"} =>
    /\ Len(res.elements) = 2
    /\ \A i \in DOMAIN res.elements :
         (res.elements[i].content # Undef)
           <=> (includes(res.elements[i].type, <<"t", "e", "x", "t">>)
                  \/ includes(res.elements[i].type, <<"h", "e", "a", "d", "i", "n", "g">>))
    /\ res.elements[1].type \in
         { <<"s", "e", "c", "t", "i", "o", "n">>, <<"c", "o", "l", "u", "m", "n">>, <<"i", "m", "a", "g", "e">>, <<"b", "u", "t", "t", "o", "n">>, <<"v", "i", "d", "e", "o">>, <<"w", "i", "d", "g", "e", "t">> }
         => res.elements[1].content = Undef
    /\ res.elements[1].type \in { <<"h", "e", "a", "d", "i", "n", "g">>, <<"t", "e", "x", "t", "-", "e", "d", "i", "t", "o", "r">> }
         => res.elements[1].content = Str(arg.node.markup)
    /\ res.elements[2].content = Str(<<"<", "p", ">", "T", "<", "/", "p", ">">>)

ImageParsedWithoutContent ==
  /\ pc = "elements"
  /\ arg.node.markup # <<>>
  /\ Len(res.elements) = 2
  /\ res.elements[1].type = <<"i", "m", "a", "g", "e">>
  /\ res.elements[1].content = Undef
  /\ res.elements[2].type = <<"t", "e", "x", "t", "-", "e", "d", "i", "t", "o", "r">>
  /\ res.elements[2].content = Str(<<"<", "p", ">", "T", "<", "/", "p", ">">>)

\* C21: an element whose type is none of section, column, heading,
\* text-editor, image, button, video and that has a content is mapped with
\* props.content equal to that content
OtherContentPassedThrough ==
  (pc = "mapped" /\ arg.type \notin PerTypeRules /\ arg.content # Undef) =>
    Get(res.component.props, <<"c", "o", "n", "t", "e", "n", "t">>) = arg.content

-----------------------------------------------------------------------------
(* One styled element mapped *)

\* background colours: transparent, hex, rgb and rgba, names the colour map
\* knows in either case, and values of none of these kinds
KnownColors ==
  { <<"t", "r", "a", "n", "s", "p", "a", "r", "e", "n", "t">>, <<"n", "o", "n", "e">>, <<"#", "f", "f", "0", "0", "0", "0">>, <<"#", "f", "f", "f">>, <<"#", "1", "2", "3">>,
    <<"r", "g", "b", "(", "0", ",", " ", "0", ",", " ", "2", "5", "5", ")">>, <<"r", "g", "b", "a", "(", "0", ",", "0", ",", "0", ",", "0", ".", "2", ")">>, <<"w", "h", "i", "t", "e">>, <<"r", "e", "d">>, <<"B", "l", "u", "e">>, <<"g", "r", "e", "y">> }

UnknownColors ==
  { <<"b", "a", "n", "a", "n", "a">>, <<"h", "s", "l", "(", "0", ",", " ", "0", "%", ",", " ", "5", "0", "%", ")">>, <<"c", "u", "r", "r", "e", "n", "t", "C", "o", "l", "o", "r">>, <<"i", "n", "h", "e", "r", "i", "t">>,
    <<"v", "a", "r", "(", "-", "-", "e", "-", "g", "l", "o", "b", "a", "l", "-", "c", "o", "l", "o", "r", "-", "p", "r", "i", "m", "a", "r", "y", ")">> }

\* lengths with a numeric part and values without one
NumericLengths == { <<"0">>, <<"1", "p", "x">>, <<"2", "0", "p", "x">>, <<"2", "e", "m">>, <<"5", "0", "%">>, <<"3", "0", "0", "p", "x">> }

WordLengths == { <<"a", "u", "t", "o">>, <<"i", "n", "h", "e", "r", "i", "t">>, <<"p", "x">>, <<"u", "n", "s", "e", "t">> }

PaddingSides == { <<"p", "a", "d", "d", "i", "n", "g", "T", "o", "p">>, <<"p", "a", "d", "d", "i", "n", "g", "B", "o", "t", "t", "o", "m">>, <<"p", "a", "d", "d", "i", "n", "g", "L", "e", "f", "t">>, <<"p", "a", "d", "d", "i", "n", "g", "R", "i", "g", "h", "t">> }

\* the border styles an element carries: every subset of the three keys
BorderStyles ==
  { (IF top THEN <<E(<<"b", "o", "r", "d", "e", "r", "T", "o", "p">>, Str(<<"1", "p", "x", " ", "s", "o", "l", "i", "d", " ", "#", "0", "0", "0">>))>> ELSE <<>>)
      \o (IF general THEN <<E(<<"b", "o", "r", "d", "e", "r">>, Str(<<"2", "p", "x", " ", "d", "a", "s", "h", "e", "d", " ", "r", "e", "d">>))>> ELSE <<>>)
      \o (IF bottom THEN <<E(<<"b", "o", "r", "d", "e", "r", "B", "o", "t", "t", "o", "m">>, Str(<<"n", "o", "n", "e">>))>> ELSE <<>>) :
      top \in BOOLEAN, general \in BOOLEAN, bottom \in BOOLEAN }

StyleRecords ==
  { <<E(<<"b", "a", "c", "k", "g", "r", "o", "u", "n", "d", "C", "o", "l", "o", "r">>, Str(color))>> : color \in KnownColors \cup UnknownColors }
    \cup { <<E(side, Str(length))>> :
             side \in PaddingSides, length \in NumericLengths \cup WordLengths }
    \cup { <<E(<<"p", "a", "d", "d", "i", "n", "g">>, Str(length))>> : length \in NumericLengths \cup WordLengths }
    \cup { <<E(<<"p", "a", "d", "d", "i", "n", "g">>, Str(<<"a", "u", "t", "o">>  \o <<" ">> \o length))>> : length \in WordLengths }
    \cup { <<E(<<"m", "a", "r", "g", "i", "n">>, Str(length))>> : length \in NumericLengths \cup WordLengths }
    \cup BorderStyles

StyledElements ==
  { ElementorElement(<<"s">>, type, <<"d", "i", "v">>, <<>>, <<>>, WidgetClasses(type), styles,
                     Undef, <<>>) :
      type \in { <<"s", "e", "c", "t", "i", "o", "n">>, <<"h", "e", "a", "d", "i", "n", "g">>, <<"s", "p", "a", "c", "e", "r">> }, styles \in StyleRecords }

InitStyled ==
  /\ ShellInit
  /\ arg \in StyledElements
  /\ res = Null
  /\ pc = "styled"

\* mapElementorToReactBricks(element)
MapStyled ==
  /\ pc = "styled"
  /\ res' = [component |-> mapElementorToReactBricks(arg, Undef)]
  /\ pc' = "propped"
  /\ UNCHANGED <<arg, shellVars>>

SpecStyled == InitStyled /\ [][MapStyled]_vars

\* C22: a background colour that is neither transparent, hex, rgb()/rgba()
\* nor a known colour name leaves props.backgroundColor at the default white,
\* and a padding value without a numeric part leaves the padding props at
\* normal
UninterpretableStyleLeavesDefault ==
  pc = "propped" =>
    /\ \A color \in UnknownColors :
         Get(arg.styles, <<"b", "a", "c", "k", "g", "r", "o", "u", "n", "d", "C", "o", "l", "o", "r">>) = Str(color) =>
           Get(res.component.props, <<"b", "a", "c", "k", "g", "r", "o", "u", "n", "d", "C", "o", "l", "o", "r">>)
             = ColorObj(TailwindColor(<<"w", "h", "i", "t", "e">>, <<"b", "g", "-", "w", "h", "i", "t", "e">>))
    /\ \A side \in PaddingSides, length \in WordLengths :
         Get(arg.styles, side) = Str(length) =>
           /\ Get(res.component.props, <<"p", "a", "d", "d", "i", "n", "g", "T", "o", "p">>) = Str(<<"n", "o", "r", "m", "a", "l">>)
           /\ Get(res.component.props, <<"p", "a", "d", "d", "i", "n", "g", "B", "o", "t", "t", "o", "m">>) = Str(<<"n", "o", "r", "m", "a", "l">>)
           /\ (~Has(res.component.props, side) \/ Get(res.component.props, side) = Str(<<"n", "o", "r", "m", "a", "l">>))
    /\ \A length \in WordLengths :
         Get(arg.styles, <<"p", "a", "d", "d", "i", "n", "g">>) = Str(length) =>
           /\ Get(res.component.props, <<"p", "a", "d", "d", "i", "n", "g", "T", "o", "p">>) = Str(<<"n", "o", "r", "m", "a", "l">>)
           /\ Get(res.component.props, <<"p", "a", "d", "d", "i", "n", "g", "B", "o", "t", "t", "o", "m">>) = Str(<<"n", "o", "r", "m", "a", "l">>)
           /\ (~Has(res.component.props, <<"p", "a", "d", "d", "i", "n", "g">>) \/ Get(res.component.props, <<"p", "a", "d", "d", "i", "n", "g">>) = Str(<<"n", "o", "r", "m", "a", "l">>))

-----------------------------------------------------------------------------
(* mapPadding and mapMargin applied to one shorthand *)

\* the most values a shorthand is given
MaxShorthandValues == 5

\* one value for the steps none, px and 5, one percentage
ShorthandValues == { <<"0">>, <<"1", "p", "x">>, <<"2", "0", "p", "x">>, <<"5", "0", "%">> }

\* the shorthands: 0 to MaxShorthandValues values separated by single spaces,
\* or by two spaces with spaces around
Shorthands ==
  { [values |-> values, text |-> layout[1] \o join(values, layout[2]) \o layout[3]] :
      values \in UNION { [1..n -> ShorthandValues] : n \in 0..MaxShorthandValues },
      layout \in { <<<<>>, <<" ">>, <<>>>>, <<<<" ", " ">>, <<" ", " ">>, <<" ">>>> } }

InitSpacing ==
  /\ ShellInit
  /\ arg \in Shorthands
  /\ res = Null
  /\ pc = "shorthand"

\* mapPadding(text) and mapMargin(text)
ApplyMapPadding ==
  /\ pc = "shorthand"
  /\ res' = [padding |-> mapPadding(arg.text), margin |-> mapMargin(arg.text)]
  /\ pc' = "spaced"
  /\ UNCHANGED <<arg, shellVars>>

SpecSpacing == InitSpacing /\ [][ApplyMapPadding]_vars

\* C23: mapPadding gives the step of the value for one value, the steps of
\* the first and second value as -y and -x for two values, the steps of the
\* first and third value as -t and -b for four values, whatever the second and
\* fourth value are, and normal for any other number of values
PaddingDecomposedByCount ==
  pc = "spaced" =>
    LET Of(v, n) ==
          /\ n = 1 => res.padding = convertSizeToTailwind(v[1])
          /\ n = 2 => res.padding = convertSizeToTailwind(v[1]) \o <<"-", "y", " ">>
                                      \o convertSizeToTailwind(v[2]) \o <<"-", "x">>
          /\ n = 4 => /\ res.padding = convertSizeToTailwind(v[1]) \o <<"-", "t", " ">>
                                        \o convertSizeToTailwind(v[3]) \o <<"-", "b">>
                      /\ res.padding = mapPadding(v[1] \o <<" ", "0", " ">> \o v[3] \o <<" ", "0">>)
          /\ n \notin {1, 2, 4} => res.padding = <<"n", "o", "r", "m", "a", "l">>
    IN Of(arg.values, Len(arg.values))

\* C24: mapMargin gives for every shorthand the steps mapPadding gives, side
\* by side: none, px, the numeric steps, large and normal are the same tokens
\* in both results
MarginStepsEqualPaddingSteps ==
  pc = "spaced" => res.margin = res.padding

\* the lines of the import section of a generated text: what precedes the
\* blank line that ends it
ImportSection(text) ==
  LET Upto(end) == SelectSeq(SubSeq(text, 1, end - 1), LAMBDA line : line # "\n")
  IN Upto(FirstOf({ i \in DOMAIN text : text[i] = "\n\n" }))

\* the import groups of the family an element type belongs to
FamilyImports(type) ==
  (IF includes(type, <<"s", "e", "c", "t", "i", "o", "n">>) THEN Range(SectionImports) ELSE {})
    \cup (IF includes(type, <<"t", "e", "x", "t">>) \/ includes(type, <<"h", "e", "a", "d", "i", "n", "g">>)
            THEN Range(TextImports) ELSE {})
    \cup (IF includes(type, <<"i", "m", "a", "g", "e">>) THEN Range(ImageImports) ELSE {})
    \cup (IF includes(type, <<"v", "i", "d", "e", "o">>) THEN Range(VideoImports) ELSE {})
    \cup (IF includes(type, <<"b", "u", "t", "t", "o", "n">>) THEN Range(ButtonImports) ELSE {})

\* the types of an element and of all its descendants
RECURSIVE TypesIn(_)
TypesIn(element) ==
  {element.type} \cup UNION { TypesIn(element.children[i]) : i \in DOMAIN element.children }

BorderFlagsReportOwnSide ==
  pc = "propped" =>
    \A side \in { <<"b", "o", "r", "d", "e", "r", "T", "o", "p">>, <<"b", "o", "r", "d", "e", "r", "B", "o", "t", "t", "o", "m">> } :
      LET Of(props, own, general) ==
            /\ (Get(props, side) = Bool(TRUE)) <=> own
            /\ (~own /\ general) => Get(props, side) = Bool(FALSE)
            /\ (~own /\ ~general) => ~Has(props, side)
      IN Of(res.component.props, Has(arg.styles, side), Has(arg.styles, <<"b", "o", "r", "d", "e", "r">>))

GeneralBorderOnlyMapped ==
  /\ pc = "propped"
  /\ Keys(arg.styles) = <<<<"b", "o", "r", "d", "e", "r">>>>
  /\ Get(res.component.props, <<"b", "o", "r", "d", "e", "r", "T", "o", "p">>) = Bool(FALSE)
  /\ Get(res.component.props, <<"b", "o", "r", "d", "e", "r", "B", "o", "t", "t", "o", "m">>) = Bool(FALSE)

\* C28: a video element that comes out of the parser has no content and is
\* mapped to type file without platform, videoId or videoFile, whatever
\* markup and video_type it has; a button element that comes out of the
\* parser has no content and is mapped without text and without href
ParsedMediaMappedWithoutContent ==
  pc = "component" =>
    /\ res.elements[1].type \in { <<"v", "i", "d", "e", "o">>, <<"b", "u", "t", "t", "o", "n">>, <<"i", "m", "a", "g", "e">> }
         => res.elements[1].content = Undef
    /\ res.elements[1].type = <<"v", "i", "d", "e", "o">> =>
         /\ Get(res.component.props, <<"t", "y", "p", "e">>) = Str(<<"f", "i", "l", "e">>)
         /\ ~Has(res.component.props, <<"p", "l", "a", "t", "f", "o", "r", "m">>)
         /\ ~Has(res.component.props, <<"v", "i", "d", "e", "o", "I", "d">>)
         /\ ~Has(res.component.props, <<"v", "i", "d", "e", "o", "F", "i", "l", "e">>)
    /\ res.elements[1].type = <<"b", "u", "t", "t", "o", "n">> =>
         /\ ~Has(res.component.props, <<"t", "e", "x", "t">>)
         /\ ~Has(res.component.props, <<"h", "r", "e", "f">>)

YouTubeEmbedParsedAndMapped ==
  /\ pc = "component"
  /\ includes(arg.node.markup, <<"y", "o", "u", "t", "u", "b", "e", ".", "c", "o", "m", "/", "e", "m", "b", "e", "d", "/", "a", "b", "c", "1", "2", "3">>)
  /\ res.elements[1].type = <<"v", "i", "d", "e", "o">>
  /\ res.component.name = <<"v", "i", "d", "e", "o", "-", "b", "l", "o", "c", "k">>
  /\ Get(res.component.props, <<"t", "y", "p", "e">>) = Str(<<"f", "i", "l", "e">>)

FailedGenerationKeepsShellState ==
  /\ [][GenerationFailedStep =>
          UNCHANGED <<generatedCode, selectedElement, activeTab, url, loading,
                      error, parsedData, clipboard, inflight>>]_vars
  /\ [][((generatedCode' # generatedCode /\ generatedCode' # <<>>)
           \/ (selectedElement' # selectedElement /\ selectedElement' # Null)) =>
          /\ toast' = ToastSuccess(<<"C", "o", "m", "p", "o", "n", "e", "n", "t", " ", "g", "e", "n", "e", "r", "a", "t", "e", "d", " ", "s", "u", "c", "c", "e", "s", "s", "f", "u", "l", "l", "y">>)
          /\ activeTab' = "code"
          /\ \E element \in Range(AllElements(parsedData.elements)) :
               GeneratedFrom(element)]_vars

GenerationFailedOverEarlierCode ==
  /\ toast = ToastError(<<"F", "a", "i", "l", "e", "d", " ", "t", "o", " ", "g", "e", "n", "e", "r", "a", "t", "e", " ", "c", "o", "m", "p", "o", "n", "e", "n", "t">>)
  /\ generatedCode # <<>>
  /\ selectedElement # Null
  /\ activeTab = "code"
  /\ parsedData # Null

=============================================================================
